---- MODULE Spec2Model ----
(***************************************************************************)
(* A model of the decision logic of the game creation modal of             *)
(* obsidian-game-log (src/src/gameCreationModal.ts): the search relevance  *)
(* ranker (rankSearchResults), the catalog-to-device platform resolver     *)
(* (filterDevicesByGamePlatforms and its caller                            *)
(* initializeStreamlinedDevices) and the image type classifier             *)
(* (SmartImageUpload, processImageFiles, detectConflicts), and of the      *)
(* list cursor KeyboardNavigationHelper (src/src/keyboardNavigation.ts).   *)
(* The form around them is modelled too: the device rows with their        *)
(* platforms, stores and subscriptions, the Create button                  *)
(* (updateCreateButton) and createGame, the debounced search (searchRawg   *)
(* with its pre-filter) and the selectGame calls that wait for RAWG.       *)
(*                                                                         *)
(* Strings that the code inspects character by character (game names,      *)
(* queries, platform names, ProtonDB tiers) are sequences of one-character *)
(* strings, so that toLowerCase, the regular expressions, includes,        *)
(* startsWith and split are computed as the code computes them.  Platform  *)
(* tags, which the code only compares for equality, are TLA+ strings.      *)
(*                                                                         *)
(* Scores are JavaScript doubles in the code.  The model computes them in  *)
(* exact arithmetic, as integers in a unit shared by all candidates of one *)
(* ranking pass (see ScoreUnit).                                           *)
(***************************************************************************)
EXTENDS Integers, Sequences, FiniteSets, TLC

VARIABLES
    \* ---- rankSearchResults (one ranking pass)
    query,              \* the query argument
    games,              \* the games argument (the filtered RAWG results)
    gamesAtCall,        \* history: the games argument as it was passed in
    currentYear,        \* new Date().getFullYear() at the call
    ranked,             \* the array returned by rankSearchResults
    rankDone,           \* whether rankSearchResults has returned
    \* ---- device selection of GameCreationModal
    allDevices,         \* plugin.getActiveDevices()
    selectedGame,       \* this.selectedGame (NoGame for null)
    showAllDevices,     \* this.showAllDevices
    protonCompatible,   \* this.protonCompatible
    protonDbCache,      \* this.protonDbCache
    streamlinedDevices, \* this.streamlinedDevices
    devicesToShow,      \* the local devicesToShow of the last initializeStreamlinedDevices
    devicesInitialized, \* whether initializeStreamlinedDevices has run
    gameData,           \* this.gameData (platforms, deviceStores, steamAppId)
    \* ---- image upload of GameCreationModal
    files,              \* the batch passed to processImageFiles
    decodeState,        \* per file: what the browser did with the Image element
    analyses,           \* the local analyses of processImageFiles
    imgPc,              \* where processImageFiles is
    highConfidence,     \* locals of processImageFiles
    lowConfidence,
    conflicts,
    cleanAutoAssigned,
    assignmentModal,    \* the arguments of showImageAssignmentModal, when called
    uploadedImages,     \* this.uploadedImages
    modalOpen,          \* whether onOpen has built the modal
    overrideLink,       \* whether the "Show all devices" link is on screen
    \* ---- KeyboardNavigationHelper
    navItems,           \* this.items: per item, whether its element is highlighted
    selectedIndex,      \* this.selectedIndex
    invoked,            \* the items whose onSelect the last handler called
    \* ---- name field, subscriptions and Create button of GameCreationModal
    gameDataName,       \* this.gameData.name
    subscriptionServices, \* this.gameData.subscriptionServices
    createDisabled,     \* the disabled property of #create-game-button
    createOutcome,      \* what the last createGame did: "none", "rejected", "created"
    \* ---- RAWG search of GameCreationModal
    searchTimeout,      \* the pending debounce timer with the value it will search
    inFlight,           \* the queries of the searchRawg calls awaiting RAWG, oldest first
    searchResults,      \* this.searchResults
    \* ---- selectGame calls that await a response
    selectCalls         \* per call: the game and the await it is suspended at

rankVars == <<query, games, gamesAtCall, currentYear, ranked, rankDone>>
deviceVars == <<allDevices, selectedGame, showAllDevices, protonCompatible,
                protonDbCache, streamlinedDevices, devicesToShow,
                devicesInitialized, gameData, modalOpen, overrideLink>>
imageVars == <<files, decodeState, analyses, imgPc, highConfidence, lowConfidence,
               conflicts, cleanAutoAssigned, assignmentModal, uploadedImages>>
navVars == <<navItems, selectedIndex, invoked>>
formVars == <<gameDataName, subscriptionServices, createDisabled, createOutcome>>
searchVars == <<searchTimeout, inFlight, searchResults>>
modalVars == <<formVars, searchVars, selectCalls>>
vars == <<rankVars, deviceVars, imageVars, navVars, modalVars>>

\* the fields above as the constructor leaves them; there is no button before
\* onOpen
ModalIdle ==
    /\ gameDataName = <<>>
    /\ subscriptionServices = <<>>
    /\ createDisabled = TRUE
    /\ createOutcome = "none"
    /\ searchTimeout = <<>>
    /\ inFlight = <<>>
    /\ searchResults = <<>>
    /\ selectCalls = <<>>

(***************************************************************************)
(* Bounds of the model.                                                    *)
(***************************************************************************)
MaxGames == 2       \* candidates in one ranking pass
MaxAdded == 2       \* largest popularity count (game.added)
MaxStrLen == 2      \* length of the generated names and queries
MaxImages == 2      \* files in one upload batch
MaxYearsElapsed == 1 \* new years between the first and the last ranking pass
MaxItems == 5       \* items registered with one KeyboardNavigationHelper

(***************************************************************************)
(* JavaScript string primitives on sequences of characters.                *)
(***************************************************************************)
Uppers == <<"A", "B", "C", "D", "E", "F", "G", "H", "I", "J", "K", "L", "M",
            "N", "O", "P", "Q", "R", "S", "T", "U", "V", "W", "X", "Y", "Z">>
Lowers == <<"a", "b", "c", "d", "e", "f", "g", "h", "i", "j", "k", "l", "m",
            "n", "o", "p", "q", "r", "s", "t", "u", "v", "w", "x", "y", "z">>
Digits == {"0", "1", "2", "3", "4", "5", "6", "7", "8", "9"}

Range(s) == {s[i] : i \in DOMAIN s}

\* String.prototype.toLowerCase, on one character
LowerOfUpper == [c \in Range(Uppers) |-> Lowers[CHOOSE i \in DOMAIN Uppers : Uppers[i] = c]]

LowerChar(c) == IF c \in DOMAIN LowerOfUpper THEN LowerOfUpper[c] ELSE c

\* String.prototype.toLowerCase
RECURSIVE toLowerCase(_)
toLowerCase(s) ==
    IF s = <<>> THEN <<>>
    ELSE Append(toLowerCase(SubSeq(s, 1, Len(s) - 1)), LowerChar(s[Len(s)]))

\* \w of the regular expressions: [A-Za-z0-9_]
WordChars == Range(Uppers) \cup Range(Lowers) \cup Digits \cup {"_"}

IsWordChar(c) == c \in WordChars

\* \s of the regular expressions (the model's strings hold no other blank)
IsSpace(c) == c = " "

\* s.substring(i - 1, i - 1 + n), 1-based, clipped like SubSeq
Sub(s, i, n) == SubSeq(s, i, i + n - 1)

\* whether t occurs in s at (1-based) position i
OccursAt(s, t, i) ==
    /\ i >= 1
    /\ i + Len(t) - 1 <= Len(s)
    /\ t = <<>> \/ (s[i] = t[1] /\ Sub(s, i, Len(t)) = t)

\* String.prototype.startsWith
startsWith(s, t) == OccursAt(s, t, 1)

\* String.prototype.includes
includes(s, t) == \E i \in 1..(Len(s) + 1) : OccursAt(s, t, i)

\* \b before position i of s (between s[i-1] and s[i])
WordBoundary(s, i) ==
    LET before == i > 1 /\ i - 1 <= Len(s) /\ IsWordChar(s[i - 1])
        after == i >= 1 /\ i <= Len(s) /\ IsWordChar(s[i])
    IN  before # after

\* str.replace(/\bd\b/g, r) for a one-character d
RECURSIVE ReplaceWholeFrom(_, _, _, _)
ReplaceWholeFrom(s, d, r, i) ==
    IF i > Len(s) THEN <<>>
    ELSE (IF s[i] = d /\ WordBoundary(s, i) /\ WordBoundary(s, i + 1)
          THEN r ELSE <<s[i]>>) \o ReplaceWholeFrom(s, d, r, i + 1)

\* (a string without d is returned as it is)
ReplaceWhole(s, d, r) == IF d \in Range(s) THEN ReplaceWholeFrom(s, d, r, 1) ELSE s

\* str.replace(/\s+/g, ' ')
RECURSIVE CollapseFrom(_, _)
CollapseFrom(s, i) ==
    IF i > Len(s) THEN <<>>
    ELSE IF IsSpace(s[i])
         THEN (IF i > 1 /\ IsSpace(s[i - 1]) THEN <<>> ELSE <<" ">>) \o CollapseFrom(s, i + 1)
         ELSE <<s[i]>> \o CollapseFrom(s, i + 1)

CollapseSpaces(s) == CollapseFrom(s, 1)

\* String.prototype.trim
trim(s) ==
    LET solid == {i \in DOMAIN s : ~IsSpace(s[i])}
    IN  IF solid = {} THEN <<>>
        ELSE SubSeq(s, CHOOSE i \in solid : \A j \in solid : i <= j,
                       CHOOSE i \in solid : \A j \in solid : i >= j)

\* str.split(/\s+/): the pieces between the maximal runs of blanks; a string
\* that starts (ends) with a blank has an empty first (last) piece
RECURSIVE SplitFrom(_, _, _)
SplitFrom(s, i, piece) ==
    IF i > Len(s) THEN <<piece>>
    ELSE IF IsSpace(s[i])
         THEN (IF i > 1 /\ IsSpace(s[i - 1]) THEN <<>> ELSE <<piece>>)
              \o SplitFrom(s, i + 1, <<>>)
         ELSE SplitFrom(s, i + 1, Append(piece, s[i]))

splitSpaces(s) == SplitFrom(s, 1, <<>>)

(***************************************************************************)
(* Optional JSON fields: <<>> when the field is absent, <<v>> when it is v. *)
(***************************************************************************)
Absent == <<>>
Some(v) == <<v>>
IsPresent(o) == o # <<>>

\* game.released: absent, a date string that Date cannot parse ("invalid",
\* whose getFullYear() is NaN), or a date of the given year
NoRelease == [present |-> FALSE, valid |-> FALSE, year |-> 0]
InvalidRelease == [present |-> TRUE, valid |-> FALSE, year |-> 0]
ReleasedIn(y) == [present |-> TRUE, valid |-> TRUE, year |-> y]

(***************************************************************************)
(* rankSearchResults                                                       *)
(***************************************************************************)
\* normalizeForComparison: the six replacements in the order of the source,
\* then the blanks
normalizeForComparison(str) ==
    LET r3 == ReplaceWhole(str, "3", <<"i", "i", "i">>)
        r2 == ReplaceWhole(r3, "2", <<"i", "i">>)
        r1 == ReplaceWhole(r2, "1", <<"i">>)
        r4 == ReplaceWhole(r1, "4", <<"i", "v">>)
        r5 == ReplaceWhole(r4, "5", <<"v">>)
        r6 == ReplaceWhole(r5, "6", <<"v", "i">>)
    IN  trim(CollapseSpaces(r6))

\* the alternatives of /\b(pack|dlc|toolkit|goodie|add-?on|expansion|season|episode|bundle)\b/i
DLCKeywords ==
    { <<"p", "a", "c", "k">>, <<"d", "l", "c">>,
      <<"t", "o", "o", "l", "k", "i", "t">>, <<"g", "o", "o", "d", "i", "e">>,
      <<"a", "d", "d", "-", "o", "n">>, <<"a", "d", "d", "o", "n">>,
      <<"e", "x", "p", "a", "n", "s", "i", "o", "n">>,
      <<"s", "e", "a", "s", "o", "n">>, <<"e", "p", "i", "s", "o", "d", "e">>,
      <<"b", "u", "n", "d", "l", "e">> }

\* isDLCPattern.test(s)
isDLCPattern(s) ==
    LET lower == toLowerCase(s)
    IN  \E i \in 1..Len(s) :
            /\ WordBoundary(s, i)
            /\ \E k \in DLCKeywords :
                   OccursAt(lower, k, i) /\ WordBoundary(s, i + Len(k))

\* queryWords.length: the number of pieces of the normalized query
QueryWordCount(q) == Len(splitSpaces(normalizeForComparison(toLowerCase(q))))

\* wordMatches: the query words that occur inside some word of the name
wordMatches(normalizedQuery, normalizedGameName) ==
    LET queryWords == splitSpaces(normalizedQuery)
        nameWords == splitSpaces(normalizedGameName)
    IN  Cardinality({i \in DOMAIN queryWords :
            \E j \in DOMAIN nameWords : includes(nameWords[j], queryWords[i])})

\* the test of the first rung:
\* gameName === queryLower || normalizedGameName === normalizedQuery
ExactMatch(name, q) ==
    \/ toLowerCase(name) = toLowerCase(q)
    \/ normalizeForComparison(toLowerCase(name)) = normalizeForComparison(toLowerCase(q))

\* the ladder tested on the normalized forms only
LadderOnNormalizedOnly(name, q) ==
    LET normalizedQuery == normalizeForComparison(toLowerCase(q))
        normalizedGameName == normalizeForComparison(toLowerCase(name))
        n == QueryWordCount(q)
    IN  IF normalizedGameName = normalizedQuery THEN 1000 * n
        ELSE IF startsWith(normalizedGameName, normalizedQuery) THEN 900 * n
        ELSE IF includes(normalizedGameName, <<" ">> \o normalizedQuery) THEN 800 * n
        ELSE IF includes(normalizedGameName, normalizedQuery) THEN 600 * n
        ELSE wordMatches(normalizedQuery, normalizedGameName) * 400

\* the ladder with its first rung taken out: an exact match scores as a prefix
LadderWithoutExactRung(name, q) ==
    LET queryLower == toLowerCase(q)
        gameName == toLowerCase(name)
        normalizedQuery == normalizeForComparison(queryLower)
        normalizedGameName == normalizeForComparison(gameName)
        n == QueryWordCount(q)
    IN  IF startsWith(gameName, queryLower)
           \/ startsWith(normalizedGameName, normalizedQuery)
        THEN 900 * n
        ELSE IF includes(gameName, <<" ">> \o queryLower)
                \/ includes(normalizedGameName, <<" ">> \o normalizedQuery)
        THEN 800 * n
        ELSE IF includes(gameName, queryLower)
                \/ includes(normalizedGameName, normalizedQuery)
        THEN 600 * n
        ELSE wordMatches(normalizedQuery, normalizedGameName) * 400

\* relevanceScore before the add-on penalty, in relevance units: the unit of
\* the relevance component is 1 / (1000 * QueryWordCount(q))
LadderRelevance(name, q) ==
    LET queryLower == toLowerCase(q)
        gameName == toLowerCase(name)
        normalizedQuery == normalizeForComparison(queryLower)
        normalizedGameName == normalizeForComparison(gameName)
        n == QueryWordCount(q)
    IN  IF gameName = queryLower \/ normalizedGameName = normalizedQuery
        THEN 1000 * n
        ELSE IF startsWith(gameName, queryLower)
                \/ startsWith(normalizedGameName, normalizedQuery)
        THEN 900 * n
        ELSE IF includes(gameName, <<" ">> \o queryLower)
                \/ includes(normalizedGameName, <<" ">> \o normalizedQuery)
        THEN 800 * n
        ELSE IF includes(gameName, queryLower)
                \/ includes(normalizedGameName, normalizedQuery)
        THEN 600 * n
        ELSE wordMatches(normalizedQuery, normalizedGameName) * 400

\* the ladder value kept as it is: no penalty for add-ons
WithoutDLCPenalty(relevance, name, q) == relevance

\* the penalty applied without looking at the query
PenaltyWhateverTheQuery(relevance, name, q) ==
    IF isDLCPattern(name) THEN (relevance * 3) \div 10 ELSE relevance

\* relevanceScore *= 0.3 when the name looks like an add-on and the query does not
ApplyDLCPenalty(relevance, name, q) ==
    IF isDLCPattern(name) /\ ~isDLCPattern(q)
    THEN (relevance * 3) \div 10
    ELSE relevance

\* relevanceScore as it enters finalScore, in relevance units
relevanceScore(name, q) == ApplyDLCPenalty(LadderRelevance(name, q), name, q)

\* game.added || 0 and game.rating || 0
OrZero(o) == IF IsPresent(o) THEN o[1] ELSE 0

Max(S) == CHOOSE x \in S : \A y \in S : x >= y

\* the popularity of the first candidate taken for the largest of the batch
addedOfFirst(gs) == IF gs = <<>> THEN 0 ELSE OrZero(gs[1].added)

\* maxAdded = Math.max(...games.map(g => g.added || 0))
maxAdded(gs) == Max({OrZero(gs[i].added) : i \in DOMAIN gs})

\* a recency that counts a candidate without a release date as a retro game
recencyOfUndatedAsRetro(released, year) ==
    IF ~released.present \/ ~released.valid THEN 100
    ELSE LET age == year - released.year
         IN  IF age <= 1 THEN 1000
             ELSE IF age <= 3 THEN 900
             ELSE IF age <= 5 THEN 700
             ELSE IF age <= 10 THEN 500
             ELSE IF age <= 20 THEN 300
             ELSE 100

\* recencyScore in thousandths.  An unparsable date gives a NaN age, for
\* which every comparison is false, so the last branch is taken.
recencyScore(released, year) ==
    IF ~released.present THEN 0
    ELSE IF ~released.valid THEN 100
    ELSE LET age == year - released.year
         IN  IF age <= 1 THEN 1000
             ELSE IF age <= 3 THEN 900
             ELSE IF age <= 5 THEN 700
             ELSE IF age <= 10 THEN 500
             ELSE IF age <= 20 THEN 300
             ELSE 100

\* The divisor of the popularity component: maxAdded, or 1 when it is 0 (the
\* component is then 0 for every candidate)
PopularityDivisor(gs) == IF maxAdded(gs) > 0 THEN maxAdded(gs) ELSE 1

\* popularityScore = maxAdded > 0 ? (added / maxAdded) : 0, times PopularityDivisor(gs)
popularityScore(game, gs) == IF maxAdded(gs) > 0 THEN OrZero(game.added) ELSE 0

\* finalScore is held as the integer finalScore * ScoreUnit
ScoreUnit(gs, q) == 10000 * QueryWordCount(q) * PopularityDivisor(gs)

\* finalScore = relevance * 0.6 + popularity * 0.25 + recency * 0.1 + rating * 0.05,
\* times ScoreUnit(gs, q), for a candidate whose relevanceScore is relevance;
\* ratings are whole stars
finalScore(relevance, game, gs, q, year) ==
    LET n == QueryWordCount(q)
        m == PopularityDivisor(gs)
    IN  relevance * 6 * m
        + popularityScore(game, gs) * 2500 * n
        + recencyScore(game.released, year) * n * m
        + OrZero(game.rating) * 100 * n * m

\* the callback of games.map: {...game, _searchScore: finalScore}; the record
\* of the model also keeps the local relevanceScore
ScoreGame(game, gs, q, year) ==
    LET relevance == relevanceScore(game.name, q)
    IN  [id |-> game.id, name |-> game.name, added |-> game.added,
         released |-> game.released, rating |-> game.rating,
         relevance |-> relevance,
         _searchScore |-> finalScore(relevance, game, gs, q, year)]

\* games.map(...)
RECURSIVE ScoredUpTo(_, _, _, _)
ScoredUpTo(gs, k, q, year) ==
    IF k = 0 THEN <<>>
    ELSE Append(ScoredUpTo(gs, k - 1, q, year), ScoreGame(gs[k], gs, q, year))

Scored(gs, q, year) == ScoredUpTo(gs, Len(gs), q, year)

\* an insertion that puts an element in front of its equals
InsertBeforeEquals(sorted, x) ==
    LET k == Cardinality({i \in DOMAIN sorted : sorted[i]._searchScore > x._searchScore})
    IN  SubSeq(sorted, 1, k) \o <<x>> \o SubSeq(sorted, k + 1, Len(sorted))

\* Array.prototype.sort with (a, b) => b._searchScore - a._searchScore: a stable
\* sort, descending.  Each element goes behind those that do not compare after it.
InsertByScore(sorted, x) ==
    LET k == Cardinality({i \in DOMAIN sorted : sorted[i]._searchScore >= x._searchScore})
    IN  SubSeq(sorted, 1, k) \o <<x>> \o SubSeq(sorted, k + 1, Len(sorted))

RECURSIVE SortByScore(_)
SortByScore(s) ==
    IF s = <<>> THEN <<>>
    ELSE InsertByScore(SortByScore(SubSeq(s, 1, Len(s) - 1)), s[Len(s)])

\* a ranking that keeps the best candidate only
rankBestOnly(gs, q, year) ==
    LET all == SortByScore(Scored(gs, q, year))
    IN  IF Len(all) <= 1 THEN all ELSE <<all[1]>>

\* the value returned by rankSearchResults(games, query)
rankSearchResults(gs, q, year) == SortByScore(Scored(gs, q, year))

\* what rankSearchResults leaves in its argument: map builds a new array, and
\* it is the new array that sort reorders
ArgumentAfterRank(gs, q, year) == gs

(***************************************************************************)
(* The inputs of the ranking passes.                                       *)
(***************************************************************************)
nZelda == <<"Z", "e", "l", "d", "a">>
nZeldaII == <<"Z", "e", "l", "d", "a", " ", "I", "I">>
nZeldaPack == <<"Z", "e", "l", "d", "a", " ", "I", "I", " ", "C", "o", "l", "l", "e",
                "c", "t", "o", "r", "'", "s", " ", "P", "a", "c", "k">>

qZelda == <<"z", "e", "l", "d", "a">>
qZelda2 == <<"z", "e", "l", "d", "a", " ", "2">>
qZeldaPack == <<"z", "e", "l", "d", "a", " ", "p", "a", "c", "k">>
qLinkHalo == <<"l", "i", "n", "k", " ", "h", "a", "l", "o">>

\* every string of at most n characters of the alphabet
StringsUpTo(alphabet, n) == UNION {[1..k -> alphabet] : k \in 0..n}

\* the characters of the generated strings: a letter, a capital that is also
\* a Roman numeral, a digit that normalizeForComparison rewrites, and a blank
GeneratedAlphabet == {"a", "I", "2", " "}

\* the years new Date().getFullYear() takes in the model
CurrentYears == {2026}

\* popularity, release date and rating of the candidates of a ranking pass
RankStats ==
    { [added |-> Absent, released |-> NoRelease, rating |-> Absent],
      [added |-> Some(0), released |-> ReleasedIn(1988), rating |-> Some(0)],
      [added |-> Some(1), released |-> ReleasedIn(2015), rating |-> Absent],
      [added |-> Some(MaxAdded), released |-> ReleasedIn(2026), rating |-> Some(5)],
      [added |-> Some(MaxAdded), released |-> InvalidRelease, rating |-> Some(3)] }

CandidatePool(names, stats) ==
    {[name |-> n, added |-> st.added, released |-> st.released, rating |-> st.rating] :
        n \in names, st \in stats}

\* RAWG results carry distinct ids: the id of a candidate is its position
WithIds(raw) ==
    [i \in DOMAIN raw |->
        [id |-> i, name |-> raw[i].name, added |-> raw[i].added,
         released |-> raw[i].released, rating |-> raw[i].rating]]

CandidateLists(pool, maxLen) == UNION {[1..k -> pool] : k \in 0..maxLen}

RankInputs(names, stats, queries, maxLen) ==
    /\ query \in queries
    /\ \E raw \in CandidateLists(CandidatePool(names, stats), maxLen) : games = WithIds(raw)
    /\ gamesAtCall = games
    /\ currentYear \in CurrentYears
    /\ ranked = <<>>
    /\ rankDone = FALSE

RankIdle ==
    /\ query = <<>>
    /\ games = <<>>
    /\ gamesAtCall = <<>>
    /\ currentYear = 2026
    /\ ranked = <<>>
    /\ rankDone = FALSE

\* one call of rankSearchResults(games, query)
RankSearchResults ==
    /\ ~rankDone
    /\ ranked' = rankSearchResults(games, query, currentYear)
    /\ games' = ArgumentAfterRank(games, query, currentYear)
    /\ rankDone' = TRUE
    /\ UNCHANGED <<query, gamesAtCall, currentYear>>
    /\ UNCHANGED <<deviceVars, imageVars, navVars, modalVars>>

\* a later call of rankSearchResults with the arguments of the first one: the
\* same request typed again, answered by RAWG as before
RankAgain ==
    /\ rankDone
    /\ ranked' = rankSearchResults(games, query, currentYear)
    /\ games' = ArgumentAfterRank(games, query, currentYear)
    /\ UNCHANGED <<query, gamesAtCall, currentYear, rankDone>>
    /\ UNCHANGED <<deviceVars, imageVars, navVars, modalVars>>

\* the clock of the machine passes midnight of 31 December: the value that
\* new Date().getFullYear() returns goes up by one
NewYear ==
    /\ currentYear < Max(CurrentYears) + MaxYearsElapsed
    /\ currentYear' = currentYear + 1
    /\ UNCHANGED <<query, games, gamesAtCall, ranked, rankDone>>
    /\ UNCHANGED <<deviceVars, imageVars, navVars, modalVars>>

(***************************************************************************)
(* filterDevicesByGamePlatforms                                            *)
(***************************************************************************)
\* the table platformMap: each key with the tags it maps to
platformMap ==
    {
      <<<<"p", "c">>,
        {"Windows"}>>,
      <<<<"p", "l", "a", "y", "s", "t", "a", "t", "i", "o", "n", " ", "4">>,
        {"PlayStation"}>>,
      <<<<"p", "l", "a", "y", "s", "t", "a", "t", "i", "o", "n", " ", "5">>,
        {"PlayStation"}>>,
      <<<<"p", "l", "a", "y", "s", "t", "a", "t", "i", "o", "n">>,
        {"PlayStation"}>>,
      <<<<"x", "b", "o", "x", " ", "o", "n", "e">>,
        {"Xbox"}>>,
      <<<<"x", "b", "o", "x", " ", "s", "e", "r", "i", "e", "s", " ", "s", "/", "x">>,
        {"Xbox"}>>,
      <<<<"x", "b", "o", "x">>,
        {"Xbox"}>>,
      <<<<"n", "i", "n", "t", "e", "n", "d", "o", " ", "s", "w", "i", "t", "c", "h">>,
        {"Nintendo"}>>,
      <<<<"n", "i", "n", "t", "e", "n", "d", "o">>,
        {"Nintendo"}>>,
      <<<<"i", "o", "s">>,
        {"iOS"}>>,
      <<<<"a", "n", "d", "r", "o", "i", "d">>,
        {"Android"}>>,
      <<<<"l", "i", "n", "u", "x">>,
        {"Linux", "SteamOS"}>>,
      <<<<"m", "a", "c", "o", "s">>,
        {"Mac"}>>,
      <<<<"m", "a", "c">>,
        {"Mac"}>>,
      <<<<"n", "e", "s">>,
        {"Nintendo", "Retro", "Emulation"}>>,
      <<<<"n", "i", "n", "t", "e", "n", "d", "o", " ", "e", "n", "t", "e", "r", "t", "a", "i", "n", "m", "e", "n", "t", " ", "s", "y", "s", "t", "e", "m">>,
        {"Nintendo", "Retro", "Emulation"}>>,
      <<<<"s", "n", "e", "s">>,
        {"Nintendo", "Retro", "Emulation"}>>,
      <<<<"s", "u", "p", "e", "r", " ", "n", "i", "n", "t", "e", "n", "d", "o">>,
        {"Nintendo", "Retro", "Emulation"}>>,
      <<<<"s", "u", "p", "e", "r", " ", "n", "i", "n", "t", "e", "n", "d", "o", " ", "e", "n", "t", "e", "r", "t", "a", "i", "n", "m", "e", "n", "t", " ", "s", "y", "s", "t", "e", "m">>,
        {"Nintendo", "Retro", "Emulation"}>>,
      <<<<"n", "i", "n", "t", "e", "n", "d", "o", " ", "6", "4">>,
        {"Nintendo", "Retro", "Emulation"}>>,
      <<<<"n", "6", "4">>,
        {"Nintendo", "Retro", "Emulation"}>>,
      <<<<"g", "a", "m", "e", "c", "u", "b", "e">>,
        {"Nintendo", "Retro", "Emulation"}>>,
      <<<<"n", "i", "n", "t", "e", "n", "d", "o", " ", "g", "a", "m", "e", "c", "u", "b", "e">>,
        {"Nintendo", "Retro", "Emulation"}>>,
      <<<<"w", "i", "i">>,
        {"Nintendo", "Retro", "Emulation"}>>,
      <<<<"n", "i", "n", "t", "e", "n", "d", "o", " ", "w", "i", "i">>,
        {"Nintendo", "Retro", "Emulation"}>>,
      <<<<"g", "a", "m", "e", " ", "b", "o", "y">>,
        {"Nintendo", "Retro", "Emulation"}>>,
      <<<<"g", "a", "m", "e", " ", "b", "o", "y", " ", "c", "o", "l", "o", "r">>,
        {"Nintendo", "Retro", "Emulation"}>>,
      <<<<"g", "a", "m", "e", " ", "b", "o", "y", " ", "a", "d", "v", "a", "n", "c", "e">>,
        {"Nintendo", "Retro", "Emulation"}>>,
      <<<<"n", "i", "n", "t", "e", "n", "d", "o", " ", "d", "s">>,
        {"Nintendo", "Retro", "Emulation"}>>,
      <<<<"n", "i", "n", "t", "e", "n", "d", "o", " ", "3", "d", "s">>,
        {"Nintendo", "Retro", "Emulation"}>>,
      <<<<"s", "e", "g", "a", " ", "g", "e", "n", "e", "s", "i", "s">>,
        {"Sega", "Retro", "Emulation"}>>,
      <<<<"s", "e", "g", "a", " ", "m", "e", "g", "a", " ", "d", "r", "i", "v", "e">>,
        {"Sega", "Retro", "Emulation"}>>,
      <<<<"g", "e", "n", "e", "s", "i", "s">>,
        {"Sega", "Retro", "Emulation"}>>,
      <<<<"m", "e", "g", "a", " ", "d", "r", "i", "v", "e">>,
        {"Sega", "Retro", "Emulation"}>>,
      <<<<"s", "e", "g", "a", " ", "s", "a", "t", "u", "r", "n">>,
        {"Sega", "Retro", "Emulation"}>>,
      <<<<"s", "a", "t", "u", "r", "n">>,
        {"Sega", "Retro", "Emulation"}>>,
      <<<<"d", "r", "e", "a", "m", "c", "a", "s", "t">>,
        {"Sega", "Retro", "Emulation"}>>,
      <<<<"s", "e", "g", "a", " ", "d", "r", "e", "a", "m", "c", "a", "s", "t">>,
        {"Sega", "Retro", "Emulation"}>>,
      <<<<"s", "e", "g", "a", " ", "m", "a", "s", "t", "e", "r", " ", "s", "y", "s", "t", "e", "m">>,
        {"Sega", "Retro", "Emulation"}>>,
      <<<<"m", "a", "s", "t", "e", "r", " ", "s", "y", "s", "t", "e", "m">>,
        {"Sega", "Retro", "Emulation"}>>,
      <<<<"g", "a", "m", "e", " ", "g", "e", "a", "r">>,
        {"Sega", "Retro", "Emulation"}>>,
      <<<<"s", "e", "g", "a", " ", "g", "a", "m", "e", " ", "g", "e", "a", "r">>,
        {"Sega", "Retro", "Emulation"}>>,
      <<<<"p", "l", "a", "y", "s", "t", "a", "t", "i", "o", "n", " ", "1">>,
        {"PlayStation", "Retro", "Emulation"}>>,
      <<<<"p", "l", "a", "y", "s", "t", "a", "t", "i", "o", "n", " ", "2">>,
        {"PlayStation", "Retro", "Emulation"}>>,
      <<<<"p", "s", "x">>,
        {"PlayStation", "Retro", "Emulation"}>>,
      <<<<"p", "s", "1">>,
        {"PlayStation", "Retro", "Emulation"}>>,
      <<<<"p", "s", "2">>,
        {"PlayStation", "Retro", "Emulation"}>>,
      <<<<"p", "s", "p">>,
        {"PlayStation", "Retro", "Emulation"}>>,
      <<<<"p", "l", "a", "y", "s", "t", "a", "t", "i", "o", "n", " ", "p", "o", "r", "t", "a", "b", "l", "e">>,
        {"PlayStation", "Retro", "Emulation"}>>,
      <<<<"p", "s", " ", "v", "i", "t", "a">>,
        {"PlayStation", "Retro", "Emulation"}>>,
      <<<<"p", "l", "a", "y", "s", "t", "a", "t", "i", "o", "n", " ", "v", "i", "t", "a">>,
        {"PlayStation", "Retro", "Emulation"}>>,
      <<<<"a", "t", "a", "r", "i", " ", "2", "6", "0", "0">>,
        {"Atari", "Retro", "Emulation"}>>,
      <<<<"a", "t", "a", "r", "i", " ", "7", "8", "0", "0">>,
        {"Atari", "Retro", "Emulation"}>>,
      <<<<"a", "t", "a", "r", "i">>,
        {"Atari", "Retro", "Emulation"}>>,
      <<<<"n", "e", "o", " ", "g", "e", "o">>,
        {"SNK", "Retro", "Emulation"}>>,
      <<<<"t", "u", "r", "b", "o", "g", "r", "a", "f", "x", "-", "1", "6">>,
        {"NEC", "Retro", "Emulation"}>>,
      <<<<"p", "c", " ", "e", "n", "g", "i", "n", "e">>,
        {"NEC", "Retro", "Emulation"}>>,
      <<<<"3", "d", "o">>,
        {"Other", "Retro", "Emulation"}>>,
      <<<<"j", "a", "g", "u", "a", "r">>,
        {"Atari", "Retro", "Emulation"}>>,
      <<<<"a", "t", "a", "r", "i", " ", "j", "a", "g", "u", "a", "r">>,
        {"Atari", "Retro", "Emulation"}>> }

\* platformMap[gamePlatform]: Absent when the table has no such key
platformMapKeys == {e[1] : e \in platformMap}

platformMapLookup ==
    [key \in platformMapKeys |-> (CHOOSE e \in platformMap : e[1] = key)[2]]

MappedTags(gamePlatform) ==
    IF gamePlatform \in platformMapKeys
    THEN Some(platformMapLookup[gamePlatform])
    ELSE Absent

\* the names tested by hasNintendoRetro
NintendoRetroNames ==
    { <<"n", "e", "s">>,
      <<"n", "i", "n", "t", "e", "n", "d", "o", " ", "e", "n", "t", "e", "r", "t", "a",
        "i", "n", "m", "e", "n", "t", " ", "s", "y", "s", "t", "e", "m">>,
      <<"s", "n", "e", "s">>,
      <<"s", "u", "p", "e", "r", " ", "n", "i", "n", "t", "e", "n", "d", "o">>,
      <<"n", "i", "n", "t", "e", "n", "d", "o", " ", "6", "4">>,
      <<"g", "a", "m", "e", " ", "b", "o", "y">> }

\* the year before which a game is a retro game
RetroYear == 2000

\* selectedGame.released && new Date(selectedGame.released).getFullYear() < 2000
\* (a NaN year compares false)
isRetroGame(game) ==
    game.released.present /\ game.released.valid /\ game.released.year < RetroYear

\* the declared names as they are, not lowercased
gamePlatformsAsDeclared(game) == game.platforms[1]

\* selectedGame.platforms.map(p => p.platform.name.toLowerCase())
gamePlatforms(game) == [i \in DOMAIN game.platforms[1] |-> toLowerCase(game.platforms[1][i])]

hasNintendoRetro(game) ==
    LET platforms == gamePlatforms(game)
    IN  \E i \in DOMAIN platforms : \E retro \in NintendoRetroNames :
            includes(platforms[i], retro)

\* a set built from the first declared platform alone
compatibleOfFirstPlatform(game, proton) ==
    LET platforms == gamePlatforms(game)
        first == MappedTags(platforms[1])
    IN  (IF IsPresent(first) THEN first[1] ELSE {})
    \cup (IF isRetroGame(game) /\ hasNintendoRetro(game) THEN {"Nintendo"} ELSE {})
    \cup (IF proton THEN {"Linux", "SteamOS"} ELSE {})

\* the set compatiblePlatforms once it is complete
compatiblePlatforms(game, proton) ==
    LET platforms == gamePlatforms(game)
        mapped == [i \in DOMAIN platforms |-> MappedTags(platforms[i])]
    IN  UNION {mapped[i][1] : i \in {j \in DOMAIN platforms : IsPresent(mapped[j])}}
    \cup (IF isRetroGame(game) /\ hasNintendoRetro(game) THEN {"Nintendo"} ELSE {})
    \cup (IF proton THEN {"Linux", "SteamOS"} ELSE {})

\* device.platforms.some(devicePlatform => compatiblePlatforms.has(devicePlatform))
DeviceIsCompatible(device, compatible) ==
    \E i \in DOMAIN device.platforms : device.platforms[i] \in compatible

\* filterDevicesByGamePlatforms(devices, selectedGame), with this.protonCompatible = proton
filterDevicesByGamePlatforms(devices, game, proton) ==
    IF ~IsPresent(game.platforms) \/ Len(game.platforms[1]) = 0
    THEN devices
    ELSE LET compatible == compatiblePlatforms(game, proton)
             Compatible(d) == DeviceIsCompatible(d, compatible)
             filteredDevices == SelectSeq(devices, Compatible)
         IN  IF Len(filteredDevices) = 0 /\ isRetroGame(game)
             THEN devices
             ELSE filteredDevices

(***************************************************************************)
(* initializeStreamlinedDevices                                            *)
(***************************************************************************)
NoGame == [id |-> 0, platforms |-> Absent, released |-> NoRelease]

\* the filter without the fallback of its caller
ResolveWithoutFallback(all, game, showAll, proton) ==
    IF game # NoGame /\ ~showAll
    THEN [devicesToShow |-> filterDevicesByGamePlatforms(all, game, proton),
          showAllDevices |-> showAll]
    ELSE [devicesToShow |-> all, showAllDevices |-> showAll]

\* the locals devicesToShow and the new this.showAllDevices
ResolveDevicesToShow(all, game, showAll, proton) ==
    IF game # NoGame /\ ~showAll
    THEN LET filtered == filterDevicesByGamePlatforms(all, game, proton)
         IN  IF Len(filtered) = 0
             THEN [devicesToShow |-> all, showAllDevices |-> TRUE]
             ELSE [devicesToShow |-> filtered, showAllDevices |-> showAll]
    ELSE [devicesToShow |-> all, showAllDevices |-> showAll]

\* the rank of a character in the collation of String.prototype.localeCompare,
\* for names of blanks, digits and letters that differ in more than case
Collation ==
    [c \in Range(Lowers) \cup Range(Uppers) \cup Digits |->
        IF c \in Digits THEN 1 + (CHOOSE k \in 0..9 : ToString(k) = c)
        ELSE 10 + (CHOOSE i \in DOMAIN Lowers : Lowers[i] = LowerChar(c))]

CollationRank(c) == IF c \in DOMAIN Collation THEN Collation[c] ELSE 0

\* a.localeCompare(b): negative, zero or positive
localeCompare(a, b) ==
    LET n == IF Len(a) < Len(b) THEN Len(a) ELSE Len(b)
        differ == {i \in 1..n : CollationRank(a[i]) # CollationRank(b[i])}
    IN  IF differ = {}
        THEN Len(a) - Len(b)
        ELSE LET i == CHOOSE i \in differ : \A j \in differ : i <= j
             IN  CollationRank(a[i]) - CollationRank(b[i])

\* [...devicesToShow].sort((a, b) => a.name.localeCompare(b.name)), a stable sort
InsertByName(sorted, d) ==
    LET k == Cardinality({i \in DOMAIN sorted : localeCompare(sorted[i].name, d.name) <= 0})
    IN  SubSeq(sorted, 1, k) \o <<d>> \o SubSeq(sorted, k + 1, Len(sorted))

RECURSIVE SortByName(_)
SortByName(ds) ==
    IF ds = <<>> THEN <<>>
    ELSE InsertByName(SortByName(SubSeq(ds, 1, Len(ds) - 1)), ds[Len(ds)])

EmptyMap == [x \in {} |-> <<>>]

\* sortedDevices.map(device => ({...}))
ToStreamlined(ds) ==
    [i \in DOMAIN ds |->
        [deviceId |-> ds[i].id,
         deviceName |-> ds[i].name,
         deviceType |-> ds[i].type,
         availablePlatforms |-> ds[i].platforms,
         selectedPlatforms |-> <<>>,
         platformStores |-> ds[i].platformStores,
         platformSubscriptions |-> ds[i].platformSubscriptions,
         selectedStores |-> EmptyMap,
         isSelected |-> FALSE]]

\* [...new Set(list)]
RECURSIVE Dedup(_)
Dedup(list) ==
    IF list = <<>> THEN <<>>
    ELSE LET front == Dedup(SubSeq(list, 1, Len(list) - 1))
         IN  IF list[Len(list)] \in Range(front) THEN front
             ELSE Append(front, list[Len(list)])

RECURSIVE Flatten(_)
Flatten(lists) ==
    IF lists = <<>> THEN <<>> ELSE lists[1] \o Flatten(Tail(lists))

\* updateGameDataFromStreamlinedDevices: the new platforms and deviceStores
ChosenDevice(d) == d.isSelected /\ Len(d.selectedPlatforms) > 0

GameDataPlatforms(sd) ==
    LET chosen == SelectSeq(sd, ChosenDevice)
    IN  [i \in DOMAIN chosen |-> chosen[i].deviceId]

GameDataDeviceStores(sd) ==
    LET chosen == SelectSeq(sd, ChosenDevice)
        StoresOf(d) ==
            Dedup(Flatten([k \in DOMAIN d.selectedPlatforms |->
                IF d.selectedPlatforms[k] \in DOMAIN d.selectedStores
                THEN d.selectedStores[d.selectedPlatforms[k]] ELSE <<>>]))
    IN  [id \in {chosen[i].deviceId : i \in DOMAIN chosen} |->
            StoresOf(chosen[CHOOSE i \in DOMAIN chosen : chosen[i].deviceId = id])]

\* the state change of initializeStreamlinedDevices, given the game data and the
\* flags it starts from
InitializeStreamlinedDevices(game, showAll, proton, data) ==
    \E r \in {ResolveDevicesToShow(allDevices, game, showAll, proton)} :
    \E sd \in {ToStreamlined(SortByName(r.devicesToShow))} :
        /\ devicesToShow' = r.devicesToShow
        /\ showAllDevices' = r.showAllDevices
        /\ streamlinedDevices' = sd
        /\ devicesInitialized' = TRUE
        /\ gameData' = [data EXCEPT !.platforms = GameDataPlatforms(sd),
                                    !.deviceStores = GameDataDeviceStores(sd)]

(***************************************************************************)
(* ProtonDB                                                                *)
(***************************************************************************)
tUnknown == <<"u", "n", "k", "n", "o", "w", "n">>

\* the answers of the ProtonDB request: it fails, or it returns a summary
\* whose tier may be missing
ProtonResponses ==
    { [ok |-> FALSE, tier |-> Absent],
      [ok |-> TRUE, tier |-> Absent],
      [ok |-> TRUE, tier |-> Some(<<"G", "o", "l", "d">>)],                \* "Gold"
      [ok |-> TRUE, tier |-> Some(<<"b", "r", "o", "n", "z", "e">>)] }     \* "bronze"

\* isProtonCompatible
compatibleRatings ==
    { <<"s", "i", "l", "v", "e", "r">>, <<"g", "o", "l", "d">>,
      <<"p", "l", "a", "t", "i", "n", "u", "m">>, <<"n", "a", "t", "i", "v", "e">> }

isProtonCompatible(rating) == toLowerCase(rating) \in compatibleRatings

\* checkProtonDbCompatibility(steamAppId): the rating returned and the cache
\* afterwards, when the request (if one is made) is answered by response
checkProtonDbCompatibility(cache, steamAppId, response) ==
    IF steamAppId \in DOMAIN cache /\ cache[steamAppId] # <<>>
    THEN [rating |-> cache[steamAppId], cache |-> cache]
    ELSE LET rating == IF response.ok /\ IsPresent(response.tier)
                           /\ response.tier[1] # <<>>
                       THEN response.tier[1] ELSE tUnknown
         IN  [rating |-> rating,
              cache |-> [a \in DOMAIN cache \cup {steamAppId} |->
                            IF a = steamAppId THEN rating ELSE cache[a]]]

\* hasLinuxDevices
hasLinuxDevices ==
    \E i \in DOMAIN allDevices : \E k \in DOMAIN allDevices[i].platforms :
        allDevices[i].platforms[k] \in {"Linux", "SteamOS"}

(***************************************************************************)
(* The devices of the user and the catalog entries of the model.           *)
(***************************************************************************)
\* "PlayStation 5", "Nintendo Switch 2", "Gaming PC" and "Legion Go"
DevicePool ==
    << [id |-> "ps5", type |-> "console",
        name |-> <<"P", "l", "a", "y", "S", "t", "a", "t", "i", "o", "n", " ", "5">>,
        platforms |-> <<"PlayStation">>,
        platformStores |-> ("PlayStation" :> <<"PlayStation Store">>),
        platformSubscriptions |-> ("PlayStation" :> <<"PlayStation Plus">>)],
       [id |-> "switch", type |-> "handheld",
        name |-> <<"N", "i", "n", "t", "e", "n", "d", "o", " ",
                   "S", "w", "i", "t", "c", "h", " ", "2">>,
        platforms |-> <<"Nintendo">>,
        platformStores |-> ("Nintendo" :> <<"Nintendo eShop">>),
        platformSubscriptions |-> ("Nintendo" :> <<"Nintendo Switch Online">>)],
       [id |-> "pc", type |-> "computer",
        name |-> <<"G", "a", "m", "i", "n", "g", " ", "P", "C">>,
        platforms |-> <<"Windows">>,
        platformStores |-> ("Windows" :> <<"Steam", "GOG">>),
        platformSubscriptions |-> ("Windows" :> <<"PC Game Pass">>)],
       [id |-> "legion", type |-> "hybrid",
        name |-> <<"L", "e", "g", "i", "o", "n", " ", "G", "o">>,
        platforms |-> <<"Linux", "SteamOS">>,
        platformStores |-> ("Linux" :> <<"Steam", "GOG">> @@ "SteamOS" :> <<"Steam">>),
        platformSubscriptions |-> ("Linux" :> <<>> @@ "SteamOS" :> <<>>)] >>

\* the elements of pool at the positions in keep, in the order of pool
SubSequence(pool, keep) ==
    [j \in 1..Cardinality(keep) |->
        pool[CHOOSE i \in keep : Cardinality({k \in keep : k <= i}) = j]]

DeviceLists == {SubSequence(DevicePool, keep) : keep \in SUBSET DOMAIN DevicePool}

pNES == <<"N", "E", "S">>
pPC == <<"P", "C">>
pSegaGenesis == <<"S", "e", "g", "a", " ", "G", "e", "n", "e", "s", "i", "s">>

\* the declared platform lists of the catalog entries
PlatformLists ==
    << Absent,
       Some(<<>>),
       Some(<<pNES>>),
       Some(<<pPC>>),
       Some(<<pSegaGenesis>>),
       \* "PlayStation 5" and "Xbox One"
       Some(<< <<"P", "l", "a", "y", "S", "t", "a", "t", "i", "o", "n", " ", "5">>,
               <<"X", "b", "o", "x", " ", "O", "n", "e">> >>),
       \* "Nintendo Switch" and "PC"
       Some(<< <<"N", "i", "n", "t", "e", "n", "d", "o", " ", "S", "w", "i", "t", "c", "h">>,
               pPC >>),
       \* "Commodore / Amiga"
       Some(<< <<"C", "o", "m", "m", "o", "d", "o", "r", "e", " ", "/", " ",
                 "A", "m", "i", "g", "a">> >>) >>

\* the release dates of the catalog entries
Releases == <<NoRelease, ReleasedIn(1988), ReleasedIn(2015)>>

\* the catalog entries the user can select, and one whose date cannot be
\* parsed; RAWG ids start at 1
CatalogGames ==
    {[id |-> (i - 1) * Len(Releases) + j,
      platforms |-> PlatformLists[i],
      released |-> Releases[j]] : i \in DOMAIN PlatformLists, j \in DOMAIN Releases}
    \cup {[id |-> Len(PlatformLists) * Len(Releases) + 1,
            platforms |-> Some(<<pNES>>), released |-> InvalidRelease]}

\* the entries for which RAWG lists a Steam store page (PC, released 2015);
\* the app id is the entry's id
SteamGameIds == {12}

\* the answers ProtonDB can give to a selection: a request is made only for a
\* Steam app id that the cache does not hold, on a vault with a Linux device
ProtonRequests(game, detailsOk, appFound) ==
    LET steamAppId == IF detailsOk
                      THEN (IF appFound /\ game.id \in SteamGameIds
                            THEN Some(game.id) ELSE Absent)
                      ELSE gameData.steamAppId
    IN  IF /\ IsPresent(steamAppId)
           /\ hasLinuxDevices
           /\ ~(steamAppId[1] \in DOMAIN protonDbCache /\ protonDbCache[steamAppId[1]] # <<>>)
        THEN ProtonResponses
        ELSE {[ok |-> FALSE, tier |-> Absent]}

(***************************************************************************)
(* The handlers of the modal that change the device selection.             *)
(***************************************************************************)
DeviceInit(deviceLists) ==
    /\ allDevices \in deviceLists
    /\ selectedGame = NoGame
    /\ showAllDevices = FALSE
    /\ protonCompatible = FALSE
    /\ protonDbCache = EmptyMap
    /\ streamlinedDevices = <<>>
    /\ devicesToShow = <<>>
    /\ devicesInitialized = FALSE
    /\ gameData = [rawgId |-> Absent, steamAppId |-> Absent,
                   platforms |-> <<>>, deviceStores |-> EmptyMap]
    /\ modalOpen = FALSE
    /\ overrideLink = FALSE

DeviceIdle == DeviceInit({<<>>})

\* renderCompactDeviceSelection: whether it creates the "Show all devices" link
LinkRendered(game, showAll, proton) ==
    /\ game # NoGame
    /\ ~showAll
    /\ Len(filterDevicesByGamePlatforms(allDevices, game, proton)) < Len(allDevices)

\* deviceSupportsEmulation(deviceType)
deviceSupportsEmulation(deviceType) ==
    deviceType \in {"computer", "handheld", "mobile", "custom"}

\* Object.values(deviceStores).some(stores => stores.length > 0)
hasValidDeviceStores(deviceStores) ==
    \E id \in DOMAIN deviceStores : Len(deviceStores[id]) > 0

\* updateCreateButton: the value of isValid, as a boolean
updateCreateButton(name, deviceStores, subscriptions, sd) ==
    LET hasSubscriptions == Len(subscriptions) > 0
        hasDevicesThatDontRequireStores ==
            \E i \in DOMAIN sd :
                /\ sd[i].isSelected
                /\ \/ \E k \in DOMAIN sd[i].selectedPlatforms :
                          sd[i].selectedPlatforms[k] \in {"Retro", "Emulation"}
                   \/ deviceSupportsEmulation(sd[i].deviceType)
    IN  /\ trim(name) # <<>>
        /\ \/ hasValidDeviceStores(deviceStores)
           \/ hasSubscriptions
           \/ hasDevicesThatDontRequireStores

\* the two checks of createGame: whether it goes on to createGameStructure
createGameValidation(name, deviceStores, subscriptions, sd) ==
    LET hasSubscriptions == Len(subscriptions) > 0
        hasDevicesThatDontRequireStores ==
            \E i \in DOMAIN sd :
                /\ sd[i].isSelected
                /\ deviceSupportsEmulation(sd[i].deviceType)
                /\ \E k \in DOMAIN sd[i].selectedPlatforms :
                       sd[i].selectedPlatforms[k] = "Emulation"
    IN  /\ trim(name) # <<>>
        /\ \/ hasValidDeviceStores(deviceStores)
           \/ hasSubscriptions
           \/ hasDevicesThatDontRequireStores

\* onOpen -> addDeviceSelection: with no device nothing is rendered; otherwise
\* the devices are initialized if they are not yet, and rendered; a modal
\* that created its game and closed is not opened again
OnOpen ==
    /\ ~modalOpen
    /\ createOutcome # "created"
    /\ modalOpen' = TRUE
    /\ IF Len(allDevices) # 0 /\ Len(streamlinedDevices) = 0
       THEN InitializeStreamlinedDevices(selectedGame, showAllDevices,
                                         protonCompatible, gameData)
       ELSE UNCHANGED <<devicesToShow, showAllDevices, streamlinedDevices,
                        devicesInitialized, gameData>>
    /\ overrideLink' = (/\ Len(allDevices) # 0
                        /\ LinkRendered(selectedGame, showAllDevices', protonCompatible))
    /\ createDisabled' = ~updateCreateButton(gameDataName, gameData'.deviceStores,
                                             subscriptionServices, streamlinedDevices')
    /\ UNCHANGED <<allDevices, selectedGame, protonCompatible, protonDbCache>>
    /\ UNCHANGED <<gameDataName, subscriptionServices, createOutcome, searchVars,
                   selectCalls>>
    /\ UNCHANGED <<rankVars, imageVars, navVars>>

\* selectGame(game) followed by updateDeviceSelectionForGame(game), run to
\* completion: detailsOk says whether fetchGameDetails succeeded, appFound
\* whether findSteamAppId found a Steam page, response what ProtonDB answers
\* (every entry of the catalog is named "Zelda"); updateFormFields ends with
\* updateCreateButton
SelectGame(game, detailsOk, appFound, response) ==
    /\ modalOpen
    /\ LET steamAppId == IF detailsOk
                         THEN (IF appFound /\ game.id \in SteamGameIds
                               THEN Some(game.id) ELSE Absent)
                         ELSE gameData.steamAppId
           data == [gameData EXCEPT !.rawgId = Some(game.id),
                                    !.steamAppId = steamAppId,
                                    !.platforms = <<>>,
                                    !.deviceStores = EmptyMap]
           asked == IsPresent(steamAppId) /\ hasLinuxDevices
           looked == checkProtonDbCompatibility(protonDbCache, steamAppId[1], response)
           proton == asked /\ isProtonCompatible(looked.rating)
       IN  /\ selectedGame' = game
           /\ protonCompatible' = proton
           /\ protonDbCache' = IF asked THEN looked.cache ELSE protonDbCache
           /\ InitializeStreamlinedDevices(game, FALSE, proton, data)
           /\ overrideLink' = (/\ Len(allDevices) # 0
                               /\ LinkRendered(game, showAllDevices', proton))
    /\ gameDataName' = nZelda
    /\ createDisabled' = ~updateCreateButton(gameDataName', gameData'.deviceStores,
                                             subscriptionServices, streamlinedDevices')
    /\ UNCHANGED <<allDevices, modalOpen>>
    /\ UNCHANGED <<subscriptionServices, createOutcome, searchVars, selectCalls>>
    /\ UNCHANGED <<rankVars, imageVars, navVars>>

\* the onclick of the "Show all devices" link; the rendering that follows
\* removes the link
ShowAllDevicesClick ==
    /\ modalOpen
    /\ overrideLink
    /\ InitializeStreamlinedDevices(selectedGame, TRUE, protonCompatible, gameData)
    /\ overrideLink' = LinkRendered(selectedGame, showAllDevices', protonCompatible)
    /\ UNCHANGED <<allDevices, selectedGame, protonCompatible, protonDbCache, modalOpen>>
    /\ UNCHANGED <<rankVars, imageVars, navVars, modalVars>>

\* clearSelectedGame: nothing is rendered again
ClearSelectedGame ==
    /\ modalOpen
    /\ selectedGame' = NoGame
    /\ gameData' = IF IsPresent(gameData.rawgId)
                   THEN [gameData EXCEPT !.rawgId = Absent, !.steamAppId = Absent]
                   ELSE gameData
    /\ UNCHANGED <<allDevices, showAllDevices, protonCompatible, protonDbCache,
                   streamlinedDevices, devicesToShow, devicesInitialized, modalOpen,
                   overrideLink>>
    /\ UNCHANGED <<rankVars, imageVars, navVars, modalVars>>

(***************************************************************************)
(* The device rows, the name field and the Create button.                  *)
(***************************************************************************)
\* list.filter(e => e !== x)
Without(list, x) ==
    LET Other(e) == e # x
    IN  SelectSeq(list, Other)

\* renderDevicePlatforms(container, device): a device of one platform gets it
\* selected, and renderPlatformStoresAndSubs gives every platform it draws an
\* entry in selectedStores
renderDevicePlatforms(d) ==
    LET one == Len(d.availablePlatforms) = 1
        auto == IF one /\ d.availablePlatforms[1] \notin Range(d.selectedPlatforms)
                THEN <<d.availablePlatforms[1]>>
                ELSE d.selectedPlatforms
        drawn == Range(auto) \cap Range(d.availablePlatforms)
    IN  [d EXCEPT !.selectedPlatforms = auto,
                  !.selectedStores =
                      [pl \in DOMAIN d.selectedStores \cup drawn |->
                          IF pl \in DOMAIN d.selectedStores
                          THEN d.selectedStores[pl] ELSE <<>>]]

\* refreshCompactDeviceRow(row, device)
refreshCompactDeviceRow(d) == IF d.isSelected THEN renderDevicePlatforms(d) ELSE d

\* the end of the handlers of a device row: updateGameDataFromStreamlinedDevices
\* and updateCreateButton on the devices sd, then the row of device i is drawn
\* again
UpdateAfterChange(sd, i) ==
    /\ gameData' = [gameData EXCEPT !.platforms = GameDataPlatforms(sd),
                                    !.deviceStores = GameDataDeviceStores(sd)]
    /\ createDisabled' = ~updateCreateButton(gameDataName, gameData'.deviceStores,
                                             subscriptionServices, sd)
    /\ streamlinedDevices' = [sd EXCEPT ![i] = refreshCompactDeviceRow(sd[i])]

\* whether the stores and subscriptions of the platform are on screen
PlatformDrawn(d, platform) ==
    /\ d.isSelected
    /\ platform \in Range(d.selectedPlatforms)
    /\ platform \in DOMAIN d.selectedStores

\* checkbox.onchange of the row of device i
ToggleDevice(i) ==
    /\ modalOpen
    /\ i \in DOMAIN streamlinedDevices
    /\ \E d \in {streamlinedDevices[i]} :
       \E toggled \in {IF d.isSelected
                       THEN [d EXCEPT !.isSelected = FALSE, !.selectedPlatforms = <<>>]
                       ELSE [d EXCEPT !.isSelected = TRUE,
                                      !.selectedPlatforms =
                                          IF Len(d.availablePlatforms) = 1
                                          THEN <<d.availablePlatforms[1]>> ELSE @]} :
           UpdateAfterChange([streamlinedDevices EXCEPT ![i] = toggled], i)
    /\ UNCHANGED <<allDevices, selectedGame, showAllDevices, protonCompatible,
                   protonDbCache, devicesToShow, devicesInitialized, modalOpen,
                   overrideLink>>
    /\ UNCHANGED <<gameDataName, subscriptionServices, createOutcome, searchVars,
                   selectCalls>>
    /\ UNCHANGED <<rankVars, imageVars, navVars>>

\* platformCheckbox.onchange of a device of several platforms
TogglePlatform(i, platform) ==
    /\ modalOpen
    /\ i \in DOMAIN streamlinedDevices
    /\ \E d \in {streamlinedDevices[i]} :
          /\ d.isSelected
          /\ Len(d.availablePlatforms) > 1
          /\ platform \in Range(d.availablePlatforms)
          /\ \E toggled \in {[d EXCEPT !.selectedPlatforms =
                                 IF platform \in Range(@)
                                 THEN Without(@, platform)
                                 ELSE Append(@, platform)]} :
                UpdateAfterChange([streamlinedDevices EXCEPT ![i] = toggled], i)
    /\ UNCHANGED <<allDevices, selectedGame, showAllDevices, protonCompatible,
                   protonDbCache, devicesToShow, devicesInitialized, modalOpen,
                   overrideLink>>
    /\ UNCHANGED <<gameDataName, subscriptionServices, createOutcome, searchVars,
                   selectCalls>>
    /\ UNCHANGED <<rankVars, imageVars, navVars>>

\* storeBtn.onclick: toggleStoreForDevicePlatform(device, platform, store)
ToggleStore(i, platform, store) ==
    /\ modalOpen
    /\ i \in DOMAIN streamlinedDevices
    /\ \E d \in {streamlinedDevices[i]} :
          /\ PlatformDrawn(d, platform)
          /\ store \in Range(d.platformStores[platform])
                          \cup Range(d.selectedStores[platform])
          /\ \E toggled \in {[d EXCEPT !.selectedStores[platform] =
                                 IF store \in Range(@)
                                 THEN Without(@, store)
                                 ELSE Append(@, store)]} :
                UpdateAfterChange([streamlinedDevices EXCEPT ![i] = toggled], i)
    /\ UNCHANGED <<allDevices, selectedGame, showAllDevices, protonCompatible,
                   protonDbCache, devicesToShow, devicesInitialized, modalOpen,
                   overrideLink>>
    /\ UNCHANGED <<gameDataName, subscriptionServices, createOutcome, searchVars,
                   selectCalls>>
    /\ UNCHANGED <<rankVars, imageVars, navVars>>

\* subBtn.onclick: toggleSubscription(subscription), for a subscription that
\* the settings enable
ToggleSubscription(i, platform, subscription) ==
    /\ modalOpen
    /\ i \in DOMAIN streamlinedDevices
    /\ PlatformDrawn(streamlinedDevices[i], platform)
    /\ subscription \in Range(streamlinedDevices[i].platformSubscriptions[platform])
    /\ subscriptionServices' =
           IF subscription \in Range(subscriptionServices)
           THEN Without(subscriptionServices, subscription)
           ELSE Append(subscriptionServices, subscription)
    /\ createDisabled' = ~updateCreateButton(gameDataName, gameData.deviceStores,
                                             subscriptionServices', streamlinedDevices)
    /\ UNCHANGED deviceVars
    /\ UNCHANGED <<gameDataName, createOutcome, searchVars, selectCalls>>
    /\ UNCHANGED <<rankVars, imageVars, navVars>>

\* onChange of the search field: the name, the button, the debounce timer of
\* 200 ms; a value of less than two characters clears the selected game
TypeName(value) ==
    /\ modalOpen
    /\ gameDataName' = value
    /\ createDisabled' = ~updateCreateButton(value, gameData.deviceStores,
                                             subscriptionServices, streamlinedDevices)
    /\ IF Len(value) >= 2
       THEN /\ searchTimeout' = Some(value)
            /\ UNCHANGED <<selectedGame, gameData>>
       ELSE /\ searchTimeout' = Absent
            /\ selectedGame' = NoGame
            /\ gameData' = IF IsPresent(gameData.rawgId)
                           THEN [gameData EXCEPT !.rawgId = Absent, !.steamAppId = Absent]
                           ELSE gameData
    /\ UNCHANGED <<allDevices, showAllDevices, protonCompatible, protonDbCache,
                   streamlinedDevices, devicesToShow, devicesInitialized, modalOpen,
                   overrideLink>>
    /\ UNCHANGED <<subscriptionServices, createOutcome, inFlight, searchResults,
                   selectCalls>>
    /\ UNCHANGED <<rankVars, imageVars, navVars>>

\* createButton.onclick -> createGame: a notice and nothing else when a check
\* fails; otherwise the game is created and the modal closes (onClose clears
\* the debounce timer)
CreateGame ==
    /\ modalOpen
    /\ ~createDisabled
    /\ IF createGameValidation(gameDataName, gameData.deviceStores,
                               subscriptionServices, streamlinedDevices)
       THEN /\ createOutcome' = "created"
            /\ modalOpen' = FALSE
            /\ searchTimeout' = Absent
       ELSE /\ createOutcome' = "rejected"
            /\ UNCHANGED <<modalOpen, searchTimeout>>
    /\ UNCHANGED <<allDevices, selectedGame, showAllDevices, protonCompatible,
                   protonDbCache, streamlinedDevices, devicesToShow,
                   devicesInitialized, gameData, overrideLink>>
    /\ UNCHANGED <<gameDataName, subscriptionServices, createDisabled, inFlight,
                   searchResults, selectCalls>>
    /\ UNCHANGED <<rankVars, imageVars, navVars>>

(***************************************************************************)
(* selectGame step by step: the calls that wait for fetchGameDetails or    *)
(* for findSteamAppId.  The steps are those of a vault without a Linux or  *)
(* SteamOS device, where updateDeviceSelectionForGame asks ProtonDB        *)
(* nothing and runs to its end without waiting.                            *)
(***************************************************************************)
MaxSelectCalls == 2     \* selectGame calls that wait for an answer

\* list.splice(k, 1)
RemoveAt(list, k) == SubSeq(list, 1, k - 1) \o SubSeq(list, k + 1, Len(list))

\* updateDeviceSelectionForGame, which initializes the devices for
\* this.selectedGame, then updateGamePreview and updateFormFields
DeviceSelectionReset(data) ==
    /\ protonCompatible' = FALSE
    /\ InitializeStreamlinedDevices(selectedGame, FALSE, FALSE,
                                    [data EXCEPT !.platforms = <<>>,
                                                 !.deviceStores = EmptyMap])
    /\ overrideLink' = (/\ Len(allDevices) # 0
                        /\ LinkRendered(selectedGame, showAllDevices', FALSE))
    /\ createDisabled' = ~updateCreateButton(gameDataName', gameData'.deviceStores,
                                             subscriptionServices, streamlinedDevices')

\* selectGame(game) up to its first await
StartSelectGame(game) ==
    /\ modalOpen
    /\ Len(selectCalls) < MaxSelectCalls
    /\ selectedGame' = game
    /\ selectCalls' = Append(selectCalls, [game |-> game, awaits |-> "fetchGameDetails"])
    /\ UNCHANGED <<allDevices, showAllDevices, protonCompatible, protonDbCache,
                   streamlinedDevices, devicesToShow, devicesInitialized, gameData,
                   modalOpen, overrideLink>>
    /\ UNCHANGED <<formVars, searchVars>>
    /\ UNCHANGED <<rankVars, imageVars, navVars>>

\* fetchGameDetails of the k-th waiting call returns: the name and the rawgId
\* are written and the call waits for findSteamAppId; or it throws, and the
\* catch branch writes them and finishes the call
DetailsReturn(k, ok) ==
    /\ k \in DOMAIN selectCalls
    /\ selectCalls[k].awaits = "fetchGameDetails"
    /\ ~hasLinuxDevices
    /\ gameDataName' = nZelda
    /\ IF ok
       THEN /\ gameData' = [gameData EXCEPT !.rawgId = Some(selectCalls[k].game.id)]
            /\ selectCalls' = [selectCalls EXCEPT ![k].awaits = "findSteamAppId"]
            /\ UNCHANGED <<showAllDevices, protonCompatible, streamlinedDevices,
                           devicesToShow, devicesInitialized, overrideLink,
                           createDisabled>>
       ELSE /\ DeviceSelectionReset([gameData EXCEPT
                                        !.rawgId = Some(selectCalls[k].game.id)])
            /\ selectCalls' = RemoveAt(selectCalls, k)
    /\ UNCHANGED <<allDevices, selectedGame, protonDbCache, modalOpen>>
    /\ UNCHANGED <<subscriptionServices, createOutcome, searchVars>>
    /\ UNCHANGED <<rankVars, imageVars, navVars>>

\* findSteamAppId of the k-th waiting call returns (it catches its own
\* errors): the steamAppId is written and the call finishes
SteamReturn(k, appFound) ==
    /\ k \in DOMAIN selectCalls
    /\ selectCalls[k].awaits = "findSteamAppId"
    /\ ~hasLinuxDevices
    /\ UNCHANGED gameDataName
    /\ DeviceSelectionReset([gameData EXCEPT !.steamAppId =
                                IF appFound /\ selectCalls[k].game.id \in SteamGameIds
                                THEN Some(selectCalls[k].game.id) ELSE Absent])
    /\ selectCalls' = RemoveAt(selectCalls, k)
    /\ UNCHANGED <<allDevices, selectedGame, protonDbCache, modalOpen>>
    /\ UNCHANGED <<subscriptionServices, createOutcome, searchVars>>
    /\ UNCHANGED <<rankVars, imageVars, navVars>>

(***************************************************************************)
(* searchRawg: the pre-filter, the ranking and the debounced search.       *)
(***************************************************************************)
ResultLimit == 8        \* rankedResults.slice(0, 8)
ClassicBefore == 2010    \* getFullYear() < 2010
MaxInFlight == 2        \* searches that wait for the answer of RAWG

modernDLCKeywords ==
    { <<"d", "l", "c">>, <<"d", "o", "w", "n", "l", "o", "a", "d", "a", "b", "l", "e", " ", "c", "o", "n", "t", "e", "n", "t">>,
      <<"c", "o", "n", "t", "e", "n", "t", " ", "p", "a", "c", "k">>, <<"c", "h", "a", "r", "a", "c", "t", "e", "r", " ", "p", "a", "c", "k">>,
      <<"s", "e", "a", "s", "o", "n", " ", "p", "a", "s", "s">>, <<"c", "o", "s", "m", "e", "t", "i", "c", " ", "p", "a", "c", "k">>,
      <<"s", "k", "i", "n", " ", "p", "a", "c", "k">>, <<"w", "e", "a", "p", "o", "n", " ", "p", "a", "c", "k">>,
      <<"s", "t", "o", "r", "y", " ", "p", "a", "c", "k">>, <<"e", "x", "t", "r", "a", " ", "c", "o", "n", "t", "e", "n", "t">>,
      <<"a", "d", "d", "i", "t", "i", "o", "n", "a", "l", " ", "c", "o", "n", "t", "e", "n", "t">>, <<"s", "p", "e", "c", "i", "e", "s", " ", "p", "a", "c", "k">> }

\* /word \d+/.test(name)
WordThenDigits(name, word) ==
    \E i \in 1..Len(name) :
        /\ OccursAt(name, word \o <<" ">>, i)
        /\ i + Len(word) + 1 <= Len(name)
        /\ name[i + Len(word) + 1] \in Digits

\* isSeasonPattern, on the lower-cased name
isSeasonPattern(name) ==
    \/ WordThenDigits(name, <<"s", "e", "a", "s", "o", "n">>)
    \/ WordThenDigits(name, <<"e", "p", "i", "s", "o", "d", "e">>)
    \/ WordThenDigits(name, <<"p", "a", "r", "t">>)
    \/ WordThenDigits(name, <<"v", "o", "l", "u", "m", "e">>)
    \/ WordThenDigits(name, <<"c", "h", "a", "p", "t", "e", "r">>)

\* name.split(separator)[1]: the text between the first and the second
\* separator (for a name that includes the separator)
RECURSIVE UpToSeparator(_, _)
UpToSeparator(s, separator) ==
    IF s = <<>> \/ startsWith(s, separator) THEN <<>>
    ELSE <<s[1]>> \o UpToSeparator(Tail(s), separator)

SecondPiece(name, separator) ==
    LET first == UpToSeparator(name, separator)
        rest == SubSeq(name, Len(first) + Len(separator) + 1, Len(name))
    IN  UpToSeparator(rest, separator)

\* hasModernDLC
hasModernDLC(name) == \E keyword \in modernDLCKeywords : includes(name, keyword)

\* the isDLCPattern of searchRawg, on the lower-cased name
searchIsDLCPattern(name) ==
    LET AfterSeparator(separator) ==
            /\ includes(name, separator)
            /\ \/ hasModernDLC(SecondPiece(name, separator))
               \/ isSeasonPattern(name)
    IN  \/ AfterSeparator(<<":", " ">>)
        \/ AfterSeparator(<<" ", "-", " ">>)
        \/ hasModernDLC(name)
        \/ isSeasonPattern(name)

\* isClassicExpansion (a date that cannot be parsed has the year NaN, and
\* NaN < 2010 is false)
isClassicExpansion(game) ==
    /\ includes(toLowerCase(game.name), <<"e", "x", "p", "a", "n", "s", "i", "o", "n">>)
    /\ game.released.present /\ game.released.valid
    /\ game.released.year < ClassicBefore
    /\ ~isSeasonPattern(toLowerCase(game.name))

\* searchRawg without the exception for classic expansions
shouldIncludeNoAddOn(game) == ~searchIsDLCPattern(toLowerCase(game.name))

\* shouldInclude
shouldInclude(game) ==
    ~searchIsDLCPattern(toLowerCase(game.name)) \/ isClassicExpansion(game)

\* list.slice(0, end)
sliceTo(list, end) == SubSeq(list, 1, IF Len(list) < end THEN Len(list) ELSE end)

\* searchRawg(query) from the answer of RAWG on: this.searchResults
searchRawg(allResults, q, year) ==
    sliceTo(rankSearchResults(SelectSeq(allResults, shouldInclude), q, year), ResultLimit)

\* the games RAWG knows in the model
RawgNames ==
    << <<"Z", "e", "l", "d", "a">>, <<"Z", "e", "l", "d", "a", " ", "I", "I">>, <<"Z", "e", "l", "d", "a", " ", "I", "I", "I">>, <<"Z", "e", "l", "d", "a", " ", "I", "V">>, <<"Z", "e", "l", "d", "a", " ", "V">>,
       <<"Z", "e", "l", "d", "a", " ", "V", "I">>, <<"Z", "e", "l", "d", "a", " ", "V", "I", "I">>, <<"Z", "e", "l", "d", "a", " ", "V", "I", "I", "I">>, <<"Z", "e", "l", "d", "a", " ", "I", "X">>,
       <<"Z", "e", "l", "d", "a", " ", "D", "L", "C">>, <<"Z", "e", "l", "d", "a", " ", "S", "e", "a", "s", "o", "n", " ", "2">>, <<"Z", "e", "l", "d", "a", " ", "E", "x", "p", "a", "n", "s", "i", "o", "n">>,
       <<"Z", "e", "l", "d", "a", " ", "E", "x", "p", "a", "n", "s", "i", "o", "n", " ", "P", "a", "r", "t", " ", "2">>, <<"Z", "e", "l", "d", "a", " ", "E", "x", "p", "a", "n", "s", "i", "o", "n", " ", "D", "L", "C">>,
       <<"Z", "e", "l", "d", "a", " ", "E", "x", "p", "a", "n", "s", "i", "o", "n", " ", "S", "t", "o", "r", "y", " ", "P", "a", "c", "k">> >>

\* the last one is of 2015, the other names with "Expansion" are of 2005
RawgPool ==
    [i \in DOMAIN RawgNames |->
        [id |-> i, name |-> RawgNames[i],
         added |-> Some(i % (MaxAdded + 1)),
         released |-> IF i = Len(RawgNames) THEN ReleasedIn(2015)
                      ELSE IF includes(RawgNames[i], <<"E", "x", "p", "a", "n", "s", "i", "o", "n">>) THEN ReleasedIn(2005)
                      ELSE IF i % 2 = 0 THEN ReleasedIn(2015) ELSE ReleasedIn(1988),
         rating |-> Some(4)]]

\* response.json.results: RAWG answers with the games whose name contains the
\* query
RawgAnswer(q) ==
    LET Matches(game) == includes(toLowerCase(game.name), toLowerCase(q))
    IN  SelectSeq(RawgPool, Matches)

\* the callback of setTimeout runs: searchRawg(value) sends its request
SearchTimerFires ==
    /\ modalOpen
    /\ IsPresent(searchTimeout)
    /\ Len(inFlight) < MaxInFlight
    /\ inFlight' = Append(inFlight, searchTimeout[1])
    /\ searchTimeout' = Absent
    /\ UNCHANGED <<formVars, searchResults, selectCalls>>
    /\ UNCHANGED <<rankVars, deviceVars, imageVars, navVars>>

\* the request of the k-th search in flight returns, or fails
RawgResponds(k, ok) ==
    /\ k \in DOMAIN inFlight
    /\ searchResults' = IF ok THEN searchRawg(RawgAnswer(inFlight[k]), inFlight[k],
                                              currentYear)
                        ELSE <<>>
    /\ inFlight' = SubSeq(inFlight, 1, k - 1) \o SubSeq(inFlight, k + 1, Len(inFlight))
    /\ UNCHANGED <<formVars, searchTimeout, selectCalls>>
    /\ UNCHANGED <<rankVars, deviceVars, imageVars, navVars>>

(***************************************************************************)
(* SmartImageUpload                                                        *)
(***************************************************************************)
STEAM_IMAGE_SPECS ==
    << [name |-> "box_art", width |-> 600, height |-> 900, tolerance |-> 50,
        filename |-> "box_art.jpg"],
       [name |-> "header", width |-> 460, height |-> 215, tolerance |-> 20,
        filename |-> "header.jpg"],
       [name |-> "hero", width |-> 1920, height |-> 620, tolerance |-> 100,
        filename |-> "hero.jpg"],
       [name |-> "logo", width |-> 0, height |-> 0, tolerance |-> 0,
        filename |-> "logo.png"] >>

\* the value null of a type
NullType == "null"

\* the small-image threshold of the logo rule
LogoMaxWidth == 800
LogoMaxHeight == 600

Abs(x) == IF x < 0 THEN -x ELSE x

\* whether width and height are within spec's tolerance
WithinTolerance(spec, width, height) ==
    /\ Abs(width - spec.width) <= spec.tolerance
    /\ Abs(height - spec.height) <= spec.tolerance

\* the transparency rule of detectImageType
IsLogo(width, height, hasTransparency) ==
    hasTransparency /\ width < LogoMaxWidth /\ height < LogoMaxHeight

\* the loop over STEAM_IMAGE_SPECS.slice(0, 3): the first spec within tolerance
DimensionMatch(width, height) ==
    LET hits == {i \in 1..3 : WithinTolerance(STEAM_IMAGE_SPECS[i], width, height)}
    IN  IF hits = {} THEN NullType
        ELSE STEAM_IMAGE_SPECS[CHOOSE i \in hits : \A j \in hits : i <= j].name

\* a fallback that tests the wide band before the ultra-wide one
AspectWideBeforeUltraWide(width, height) ==
    IF 10 * width < 8 * height THEN STEAM_IMAGE_SPECS[1].name
    ELSE IF 10 * width > 15 * height THEN STEAM_IMAGE_SPECS[2].name
    ELSE IF 10 * width > 25 * height THEN STEAM_IMAGE_SPECS[3].name
    ELSE NullType

\* the aspect-ratio fallback, for height > 0: width / height < 0.8 is
\* 10 * width < 8 * height, and so on
AspectMatch(width, height) ==
    IF 10 * width < 8 * height THEN STEAM_IMAGE_SPECS[1].name
    ELSE IF 10 * width > 25 * height THEN STEAM_IMAGE_SPECS[3].name
    ELSE IF 10 * width > 15 * height THEN STEAM_IMAGE_SPECS[2].name
    ELSE NullType

\* a detection that tries the dimensions before the transparency rule
detectByDimensionsFirst(width, height, hasTransparency) ==
    IF DimensionMatch(width, height) # NullType THEN DimensionMatch(width, height)
    ELSE IF IsLogo(width, height, hasTransparency) THEN "logo"
    ELSE AspectMatch(width, height)

\* detectImageType: the name of the spec returned, or NullType
detectImageType(width, height, hasTransparency) ==
    IF IsLogo(width, height, hasTransparency) THEN "logo"
    ELSE IF DimensionMatch(width, height) # NullType THEN DimensionMatch(width, height)
    ELSE AspectMatch(width, height)

\* confidence: detectedType ? 'high' : 'low'
ConfidenceOf(detectedType) == IF detectedType # NullType THEN "high" ELSE "low"

\* the record analyzeImage resolves with, for file number i of the batch
analyzeImage(i, file) ==
    LET detectedType == detectImageType(file.width, file.height, file.hasTransparency)
    IN  [file |-> i,
         name |-> file.name,
         type |-> detectedType,
         confidence |-> ConfidenceOf(detectedType),
         message |-> IF detectedType # NullType THEN "Auto-detected" ELSE "Unknown size",
         width |-> file.width,
         height |-> file.height,
         hasTransparency |-> file.hasTransparency]

(***************************************************************************)
(* processImageFiles, detectConflicts, processConfirmedImages              *)
(***************************************************************************)
\* typeCount[t] after the first loop of detectConflicts
typeCount(images, t) == Cardinality({i \in DOMAIN images : images[i].type = t})

\* a detection that flags an image only when an earlier one has its type
detectLaterDuplicates(images) ==
    LET picked == {i \in DOMAIN images :
                      /\ images[i].type # NullType
                      /\ \E j \in 1..(i - 1) : images[j].type = images[i].type}
        order == SubSequence(images, picked)
    IN  [i \in DOMAIN order |->
            [order[i] EXCEPT !.message = "Multiple images detected",
                             !.confidence = "high"]]

\* detectConflicts(images)
detectConflicts(images) ==
    LET Conflicting(img) == img.type # NullType /\ typeCount(images, img.type) > 1
        picked == SelectSeq(images, Conflicting)
    IN  [i \in DOMAIN picked |->
            [picked[i] EXCEPT !.message = "Multiple images detected",
                              !.confidence = "high"]]

\* a test that misses the images without a slot
IsLowAndTyped(a) == a.confidence = "low" /\ a.type # NullType

IsHigh(a) == a.confidence = "high"
IsLow(a) == a.confidence = "low"

\* cleanAutoAssigned: the high-confidence images whose file name is not the
\* file name of a conflict
CleanOf(high, conf) ==
    LET conflictFilenames == {conf[i].name : i \in DOMAIN conf}
        Clean(img) == img.name \notin conflictFilenames
    IN  SelectSeq(high, Clean)

\* the entry processConfirmedImages pushes for img
ProcessedImage(img) ==
    LET spec == STEAM_IMAGE_SPECS[CHOOSE k \in DOMAIN STEAM_IMAGE_SPECS :
                                      STEAM_IMAGE_SPECS[k].name = img.type]
    IN  [type |-> img.type, filename |-> spec.filename, file |-> img.file]

ImageInit(batches) ==
    /\ files \in batches
    /\ decodeState = [i \in DOMAIN files |-> "pending"]
    /\ analyses = <<>>
    /\ imgPc = "idle"
    /\ highConfidence = <<>>
    /\ lowConfidence = <<>>
    /\ conflicts = <<>>
    /\ cleanAutoAssigned = <<>>
    /\ assignmentModal = Absent
    /\ uploadedImages = <<>>

ImageIdle == ImageInit({<<>>})

\* handleImageFiles -> processImageFiles: the first analyzeImage is started
StartProcessImageFiles ==
    /\ imgPc = "idle"
    /\ Len(files) > 0
    /\ imgPc' = "analyzing"
    /\ UNCHANGED <<files, decodeState, analyses, highConfidence, lowConfidence,
                   conflicts, cleanAutoAssigned, assignmentModal, uploadedImages>>
    /\ UNCHANGED <<rankVars, deviceVars, navVars, modalVars>>

\* what follows the loop of processImageFiles once all is the complete list of
\* analyses: the three buckets, then the modal or processConfirmedImages, which
\* clears uploadedImages and waits for the first arrayBuffer()
ClassifyBatch(all) ==
    LET high == SelectSeq(all, IsHigh)
        low == SelectSeq(all, IsLow)
        conf == detectConflicts(high)
        clean == CleanOf(high, conf)
    IN  /\ highConfidence' = high
        /\ lowConfidence' = low
        /\ conflicts' = conf
        /\ cleanAutoAssigned' = clean
        /\ IF Len(conf) > 0 \/ Len(low) > 0
           THEN /\ assignmentModal' = Some([problematicImages |-> conf \o low,
                                            autoAssigned |-> clean])
                /\ imgPc' = "modal"
                /\ UNCHANGED uploadedImages
           ELSE /\ uploadedImages' = <<>>
                /\ imgPc' = IF Len(high) > 0 THEN "confirming" ELSE "done"
                /\ UNCHANGED assignmentModal

\* img.onload of the file being analysed, with a 2d context: the promise of
\* analyzeImage resolves, the analysis is pushed and the loop goes on
ImageLoaded ==
    /\ imgPc = "analyzing"
    /\ LET i == Len(analyses) + 1
           all == Append(analyses, analyzeImage(i, files[i]))
       IN  /\ decodeState' = [decodeState EXCEPT ![i] = "loaded"]
           /\ analyses' = all
           /\ IF i < Len(files)
              THEN UNCHANGED <<imgPc, highConfidence, lowConfidence, conflicts,
                               cleanAutoAssigned, assignmentModal, uploadedImages>>
              ELSE ClassifyBatch(all)
    /\ UNCHANGED files
    /\ UNCHANGED <<rankVars, deviceVars, navVars, modalVars>>

\* img.onload with canvas.getContext('2d') returning null: nothing resolves
\* the promise of analyzeImage
ImageLoadedWithoutContext ==
    /\ imgPc = "analyzing"
    /\ decodeState' = [decodeState EXCEPT ![Len(analyses) + 1] = "noContext"]
    /\ imgPc' = "stuck"
    /\ UNCHANGED <<files, analyses, highConfidence, lowConfidence, conflicts,
                   cleanAutoAssigned, assignmentModal, uploadedImages>>
    /\ UNCHANGED <<rankVars, deviceVars, navVars, modalVars>>

\* the file cannot be decoded: the error event of the Image has no handler,
\* and nothing resolves or rejects the promise of analyzeImage
ImageFailedToLoad ==
    /\ imgPc = "analyzing"
    /\ decodeState' = [decodeState EXCEPT ![Len(analyses) + 1] = "error"]
    /\ imgPc' = "stuck"
    /\ UNCHANGED <<files, analyses, highConfidence, lowConfidence, conflicts,
                   cleanAutoAssigned, assignmentModal, uploadedImages>>
    /\ UNCHANGED <<rankVars, deviceVars, navVars, modalVars>>

\* one turn of the loop of processConfirmedImages(highConfidence): the
\* arrayBuffer() of the next image arrives and the image is pushed
ConfirmNextImage ==
    /\ imgPc = "confirming"
    /\ LET k == Len(uploadedImages) + 1
       IN  /\ uploadedImages' = Append(uploadedImages, ProcessedImage(highConfidence[k]))
           /\ imgPc' = IF k < Len(highConfidence) THEN "confirming" ELSE "done"
    /\ UNCHANGED <<files, decodeState, analyses, highConfidence, lowConfidence,
                   conflicts, cleanAutoAssigned, assignmentModal>>
    /\ UNCHANGED <<rankVars, deviceVars, navVars, modalVars>>

\* arrayBuffer() rejects: processConfirmedImages catches and stops
ConfirmFails ==
    /\ imgPc = "confirming"
    /\ imgPc' = "done"
    /\ UNCHANGED <<files, decodeState, analyses, highConfidence, lowConfidence,
                   conflicts, cleanAutoAssigned, assignmentModal, uploadedImages>>
    /\ UNCHANGED <<rankVars, deviceVars, navVars, modalVars>>

(***************************************************************************)
(* KeyboardNavigationHelper                                                *)
(***************************************************************************)
\* the state after the constructor: no item, no selection
NavIdle ==
    /\ navItems = <<>>
    /\ selectedIndex = -1
    /\ invoked = {}

\* this.items[index] is an item (index counts from 0)
HasItem(items, index) == index >= 0 /\ index < Len(items)

\* the element of this.items[index] with or without the class keyboard-selected
Highlight(items, index, on) == [items EXCEPT ![index + 1] = on]

\* clearSelection(): the items and the index afterwards
clearSelection(items, index) ==
    [items |-> IF HasItem(items, index) THEN Highlight(items, index, FALSE) ELSE items,
     selectedIndex |-> -1]

\* a move that stops at the ends of the list
moveWithoutWrap(items, index, direction) ==
    LET cleared == IF HasItem(items, index) THEN Highlight(items, index, FALSE) ELSE items
        moved == index + direction
        new == IF moved >= Len(items) THEN Len(items) - 1
               ELSE IF moved < 0 THEN 0
               ELSE moved
    IN  [items |-> IF HasItem(cleared, new) THEN Highlight(cleared, new, TRUE) ELSE cleared,
         selectedIndex |-> new]

\* moveSelection(direction): the items and the index afterwards
moveSelection(items, index, direction) ==
    LET cleared == IF HasItem(items, index) THEN Highlight(items, index, FALSE) ELSE items
        moved == index + direction
        new == IF moved >= Len(items) THEN 0
               ELSE IF moved < 0 THEN Len(items) - 1
               ELSE moved
    IN  [items |-> IF HasItem(cleared, new) THEN Highlight(cleared, new, TRUE) ELSE cleared,
         selectedIndex |-> new]

\* every registered callback is called
selectEveryItem(items, index) == {i \in 0..(Len(items) - 1) : index >= 0}

\* selectCurrent(): the items whose onSelect is called
selectCurrent(items, index) == IF HasItem(items, index) THEN {index} ELSE {}

\* addItem(element, onSelect)
AddItem ==
    /\ Len(navItems) < MaxItems
    /\ navItems' = Append(navItems, FALSE)
    /\ invoked' = {}
    /\ UNCHANGED selectedIndex
    /\ UNCHANGED <<rankVars, deviceVars, imageVars, modalVars>>

\* selectFirst()
SelectFirst ==
    /\ IF Len(navItems) > 0
       THEN \E r \in {moveSelection(navItems, -1, 1)} :
                navItems' = r.items /\ selectedIndex' = r.selectedIndex
       ELSE UNCHANGED <<navItems, selectedIndex>>
    /\ invoked' = {}
    /\ UNCHANGED <<rankVars, deviceVars, imageVars, modalVars>>

\* the keydown listener of the container
KeyDown(key) ==
    /\ \E r \in { CASE key = "ArrowDown" -> moveSelection(navItems, selectedIndex, 1)
                   [] key = "ArrowUp" -> moveSelection(navItems, selectedIndex, -1)
                   [] key = "Escape" -> clearSelection(navItems, selectedIndex)
                   [] OTHER -> [items |-> navItems, selectedIndex |-> selectedIndex] } :
          navItems' = r.items /\ selectedIndex' = r.selectedIndex
    /\ invoked' = IF key = "Enter" THEN selectCurrent(navItems, selectedIndex) ELSE {}
    /\ UNCHANGED <<rankVars, deviceVars, imageVars, modalVars>>

\* destroy(): the listener of the container stays
Destroy ==
    /\ navItems' = <<>>
    /\ selectedIndex' = -1
    /\ invoked' = {}
    /\ UNCHANGED <<rankVars, deviceVars, imageVars, modalVars>>

(***************************************************************************)
(* The specifications.                                                     *)
(***************************************************************************)
\* The modal and its device selection, for every device list of DeviceLists.
Init == DeviceInit(DeviceLists) /\ RankIdle /\ ImageIdle /\ NavIdle /\ ModalIdle

Next ==
    \/ OnOpen
    \/ \E game \in CatalogGames, detailsOk \in BOOLEAN :
          \E appFound \in (IF detailsOk /\ game.id \in SteamGameIds THEN BOOLEAN ELSE {FALSE}) :
            \E response \in ProtonRequests(game, detailsOk, appFound) :
                SelectGame(game, detailsOk, appFound, response)
    \/ ShowAllDevicesClick
    \/ ClearSelectedGame

Spec == Init /\ [][Next]_vars

\* One ranking pass over a list of at most MaxGames candidates.
RankNames == {nZelda, nZeldaII, nZeldaPack}
RankQueries == {qZelda, qZelda2, qZeldaPack, qLinkHalo}

RankInit == RankInputs(RankNames, RankStats, RankQueries, MaxGames) /\ DeviceIdle /\ ImageIdle /\ NavIdle /\ ModalIdle

RankNext == RankSearchResults

SpecRank == RankInit /\ [][RankNext]_vars

\* One ranking pass over a single candidate, for many names and queries.  The
\* names are names that the filter of searchRawg lets through.
RelevanceNames ==
    {
      nZelda,
      nZeldaII,
      <<"T", "h", "e", " ", "L", "e", "g", "e", "n", "d", " ", "o", "f", " ", "Z", "e", "l", "d", "a", " ", "I", "I">>,    \* "The Legend of Zelda II"
      nZeldaPack,
      <<"H", "a", "l", "o">>,    \* "Halo"
      <<"H", "a", "l", "o", " ", "3">>,    \* "Halo 3"
      <<"H", "a", "l", "o", " ", "I", "I", "I">>,    \* "Halo III"
      <<"H", "a", "l", "o", " ", "3", "D">>,    \* "Halo 3D"
      <<"H", "a", "l", "o", ":", " ", "S", "e", "a", "s", "o", "n", " ", "T", "w", "o">>,    \* "Halo: Season Two"
      <<"S", "i", "m", "s", " ", "A", "d", "d", "-", "o", "n">>,    \* "Sims Add-on"
      <<"S", "i", "m", "s", " ", "A", "D", "D", "O", "N">>,    \* "Sims ADDON"
      <<"S", "i", "m", "s", " ", "P", "a", "c", "k", "s">>,    \* "Sims Packs"
      <<"G", "o", "o", "d", "i", "e", " ", "B", "a", "g">>,    \* "Goodie Bag"
      <<"A", "g", "e", " ", "E", "x", "p", "a", "n", "s", "i", "o", "n">>,    \* "Age Expansion"
      <<"B", "a", "c", "k", "p", "a", "c", "k", " ", "H", "e", "r", "o">>,    \* "Backpack Hero"
      <<"S", "u", "p", "e", "r", " ", "z", "e", "l", "d", "a">>,    \* "Super zelda"
      <<"X", "z", "e", "l", "d", "a">>,    \* "Xzelda"
      <<"h", "a", "l", "o", "_", "b", "u", "n", "d", "l", "e">>,    \* "halo_bundle"
      <<" ", "Z", "e", "l", "d", "a", " ", " ", " ", "I", "I", " ">>,    \* " Zelda   II "
      <<"L", "i", "n", "k", " ", "Z", "e", "l", "d", "a", " ", "5">>,    \* "Link Zelda 5"
      <<"P", "a", "c", "k">>    \* "Pack"
    }
    \cup (StringsUpTo(GeneratedAlphabet, MaxStrLen) \ {<<>>})

\* a search is started for a value of at least two characters
RelevanceQueries ==
    {
      qZelda,
      qZelda2,
      <<"Z", "E", "L", "D", "A", " ", "I", "I">>,    \* "ZELDA II"
      qZeldaPack,
      <<"h", "a", "l", "o", " ", "3">>,    \* "halo 3"
      <<"h", "a", "l", "o", " ">>,    \* "halo "
      <<"s", "i", "m", "s">>,    \* "sims"
      <<"s", "i", "m", "s", " ", "a", "d", "d", "o", "n">>,    \* "sims addon"
      <<"d", "l", "c">>,    \* "dlc"
      <<"p", "a", "c", "k">>,    \* "pack"
      <<"p", "a", "c", "k", "s">>,    \* "packs"
      qLinkHalo,
      <<"e", "l">>,    \* "el"
      <<" ", " ">>,    \* "  "
      <<"a", "g", "e", " ", " ", "e", "x">>    \* "age  ex"
    }
    \cup {q \in StringsUpTo(GeneratedAlphabet, MaxStrLen) : Len(q) >= 2}

RelevanceStats == {[added |-> Absent, released |-> NoRelease, rating |-> Absent]}

RelevanceInit ==
    RankInputs(RelevanceNames, RelevanceStats, RelevanceQueries, 1) /\ DeviceIdle /\ ImageIdle /\ NavIdle /\ ModalIdle

SpecRelevance == RelevanceInit /\ [][RankNext]_vars

\* One ranking pass for the query "zelda 2" over a list that holds both
\* "The Legend of Zelda II: The Adventure of Link" and "Zelda II Collector's
\* Pack", each with every combination of popularity, release date and rating.
nZeldaAdventure ==
    <<"T", "h", "e", " ", "L", "e", "g", "e", "n", "d", " ", "o", "f", " ",
      "Z", "e", "l", "d", "a", " ", "I", "I", ":", " ",
      "T", "h", "e", " ", "A", "d", "v", "e", "n", "t", "u", "r", "e", " ",
      "o", "f", " ", "L", "i", "n", "k">>

Zelda2Init ==
    /\ RankInputs({nZeldaAdventure, nZeldaPack},
                  RankStats \cup
                      { [added |-> Some(MaxAdded), released |-> NoRelease, rating |-> Absent],
                        [added |-> Absent, released |-> ReleasedIn(2026), rating |-> Some(5)] },
                  {qZelda2}, MaxGames)
    /\ \E i, j \in DOMAIN games :
          games[i].name = nZeldaAdventure /\ games[j].name = nZeldaPack
    /\ DeviceIdle
    /\ ImageIdle
    /\ NavIdle /\ ModalIdle

SpecZelda2 == Zelda2Init /\ [][RankNext]_vars

\* Ranking passes repeated with the same arguments while the year changes.
\* The candidates differ in release date and rating only.
RepeatInit ==
    /\ RankInputs({nZelda, nZeldaII},
                  { [added |-> Absent, released |-> NoRelease, rating |-> Absent],
                    [added |-> Absent, released |-> ReleasedIn(2025), rating |-> Absent],
                    [added |-> Absent, released |-> ReleasedIn(2016), rating |-> Some(5)] },
                  {qZelda, qZelda2}, MaxGames)
    /\ DeviceIdle
    /\ ImageIdle
    /\ NavIdle /\ ModalIdle

RepeatNext ==
    \/ RankSearchResults
    \/ RankAgain
    \/ NewYear

SpecRepeat == RepeatInit /\ [][RepeatNext]_vars

\* The modal with a search and a device selection, for candidates and catalog
\* entries that lack their optional fields (and some that have them).
\* a catalog entry whose platform list is missing or empty
DeclaresNoPlatform(game) == ~IsPresent(game.platforms) \/ game.platforms = Some(<<>>)

SparseInit ==
    /\ RankInputs({nZelda},
                  { [added |-> Absent, released |-> NoRelease, rating |-> Absent],
                    [added |-> Some(MaxAdded), released |-> ReleasedIn(2015),
                     rating |-> Some(3)] },
                  {qZelda, qZelda2}, MaxGames)
    /\ DeviceInit({DevicePool, SubSequence(DevicePool, {1, 2})})
    /\ ImageIdle
    /\ NavIdle /\ ModalIdle

SparseNext ==
    \/ RankSearchResults
    \/ OnOpen
    \/ \E game \in {g \in CatalogGames : DeclaresNoPlatform(g) \/ g.id \in SteamGameIds},
           detailsOk \in BOOLEAN :
          \E appFound \in (IF detailsOk /\ game.id \in SteamGameIds THEN BOOLEAN ELSE {FALSE}) :
            \E response \in ProtonRequests(game, detailsOk, appFound) :
                SelectGame(game, detailsOk, appFound, response)
    \/ ShowAllDevicesClick
    \/ ClearSelectedGame

SpecSparse == SparseInit /\ [][SparseNext]_vars

\* The upload of one image, for many sizes.
DetectWidths == {300, 400, 440, 460, 480, 481, 512, 550, 600, 605, 650, 651, 799, 800,
                 1000, 1820, 1920, 2020, 2021}
DetectHeights == {195, 215, 235, 236, 400, 512, 520, 599, 600, 620, 720, 850, 900, 910,
                  950, 951, 1080}

DetectBatches ==
    {<<[name |-> n, width |-> w, height |-> h, hasTransparency |-> t]>> :
        n \in {"a.png", "hero.jpg"}, w \in DetectWidths, h \in DetectHeights, t \in BOOLEAN}

ImageNext ==
    \/ StartProcessImageFiles
    \/ ImageLoaded
    \/ ImageLoadedWithoutContext
    \/ ImageFailedToLoad
    \/ ConfirmNextImage
    \/ ConfirmFails

DetectInit == ImageInit(DetectBatches) /\ RankIdle /\ DeviceIdle /\ NavIdle /\ ModalIdle

SpecDetect == DetectInit /\ [][ImageNext]_vars

\* The upload of a batch of at most MaxImages images.
BatchImages ==
    {[name |-> n, width |-> d[1], height |-> d[2], hasTransparency |-> d[3]] :
        n \in {"a.png", "b.png"},
        d \in { <<600, 900, FALSE>>, <<605, 910, FALSE>>, <<460, 215, FALSE>>,
                <<460, 215, TRUE>>, <<512, 512, TRUE>>, <<512, 512, FALSE>>,
                <<400, 900, FALSE>>, <<1920, 620, FALSE>>, <<1000, 400, FALSE>> }}

ImageBatches == UNION {[1..k -> BatchImages] : k \in 1..MaxImages}

BatchInit == ImageInit(ImageBatches) /\ RankIdle /\ DeviceIdle /\ NavIdle /\ ModalIdle

SpecImages == BatchInit /\ [][ImageNext]_vars

\* The upload of a batch of one file more than in SpecImages, of fewer sizes:
\* two images of one slot and a third image can bear the same file name.
BucketImages ==
    {[name |-> n, width |-> d[1], height |-> d[2], hasTransparency |-> FALSE] :
        n \in {"a.png", "b.png"},
        d \in { <<600, 900>>, <<605, 910>>, <<460, 215>>, <<1000, 400>> }}

BucketBatches == UNION {[1..k -> BucketImages] : k \in 1..(MaxImages + 1)}

BucketInit == ImageInit(BucketBatches) /\ RankIdle /\ DeviceIdle /\ NavIdle /\ ModalIdle

SpecBuckets == BucketInit /\ [][ImageNext]_vars

\* One KeyboardNavigationHelper and the calls and keys it can receive.
NavInit == NavIdle /\ ModalIdle /\ RankIdle /\ DeviceIdle /\ ImageIdle

NavNext ==
    \/ AddItem
    \/ SelectFirst
    \/ KeyDown("ArrowDown")
    \/ KeyDown("ArrowUp")
    \/ KeyDown("Enter")
    \/ KeyDown("Escape")
    \/ Destroy

SpecNav == NavInit /\ [][NavNext]_vars

\* The form of the modal: the device rows, the name field and the Create
\* button, for two device lists and two catalog entries ("PlayStation 5" and
\* "Xbox One" of 2015; "PC" of 2015) whose requests all succeed.
FormDeviceLists == { <<DevicePool[1], DevicePool[3]>>, <<DevicePool[4]>> }

FormGames == {g \in CatalogGames : g.id \in {12, 18}}

FormNames == { <<>>, <<" ", " ">>, nZelda }

FormStores == {"PlayStation Store", "Steam", "GOG"}

FormSubscriptions == {"PlayStation Plus", "PC Game Pass"}

FormInit == DeviceInit(FormDeviceLists) /\ RankIdle /\ ImageIdle /\ NavIdle /\ ModalIdle

FormNext ==
    \/ OnOpen
    \/ \E game \in FormGames :
          SelectGame(game, TRUE, FALSE, [ok |-> FALSE, tier |-> Absent])
    \/ ShowAllDevicesClick
    \/ \E i \in 1..2 : ToggleDevice(i)
    \/ \E i \in 1..2, platform \in {"Linux", "SteamOS"} : TogglePlatform(i, platform)
    \/ \E i \in 1..2, platform \in {"PlayStation", "Windows", "Linux", "SteamOS"},
          store \in FormStores : ToggleStore(i, platform, store)
    \/ \E i \in 1..2, platform \in {"PlayStation", "Windows"},
          subscription \in FormSubscriptions :
              ToggleSubscription(i, platform, subscription)
    \/ \E value \in FormNames : TypeName(value)
    \/ CreateGame

SpecForm == FormInit /\ [][FormNext]_vars

\* The search field: the values typed, the debounce timer and the searches in
\* flight, whose answers can arrive in any order.
\* "z", "ze", "zelda e" and "zelda i"
SearchValues ==
    { <<"z">>, <<"z", "e">>, <<"z", "e", "l", "d", "a", " ", "e">>,
      <<"z", "e", "l", "d", "a", " ", "i">> }

SearchInit == DeviceIdle /\ RankIdle /\ ImageIdle /\ NavIdle /\ ModalIdle

SearchNext ==
    \/ OnOpen
    \/ \E value \in SearchValues : TypeName(value)
    \/ SearchTimerFires
    \/ \E k \in 1..MaxInFlight, ok \in BOOLEAN : RawgResponds(k, ok)

SpecSearch == SearchInit /\ [][SearchNext]_vars

\* Overlapping game selections on a vault with "PlayStation 5" and "Gaming
\* PC".
SelectInit ==
    /\ DeviceInit({ <<DevicePool[1], DevicePool[3]>> })
    /\ RankIdle /\ ImageIdle /\ NavIdle /\ ModalIdle

SelectNext ==
    \/ OnOpen
    \/ \E game \in FormGames : StartSelectGame(game)
    \/ \E k \in 1..MaxSelectCalls, ok \in BOOLEAN : DetailsReturn(k, ok)
    \/ \E k \in 1..MaxSelectCalls, appFound \in BOOLEAN : SteamReturn(k, appFound)
    \/ ClearSelectedGame

SpecSelect == SelectInit /\ [][SelectNext]_vars

(***************************************************************************)
(* Properties of the device resolver.                                      *)
(***************************************************************************)
\* C1: for a non-empty device list, the list resolved for every catalog entry
\* and either value of the compatibility hint (the filter together with the
\* fallback of initializeStreamlinedDevices) is non-empty and made of devices
\* of the list; so is the list the modal shows once it is initialized.
C1_ResolvedListNeverEmpty ==
    Len(allDevices) > 0 =>
        /\ \A E \in CatalogGames, hint \in BOOLEAN :
              LET resolved ==
                      ResolveDevicesToShow(allDevices, E, showAllDevices, hint).devicesToShow
              IN  /\ Len(resolved) > 0
                  /\ Range(resolved) \subseteq Range(allDevices)
                  /\ Len(resolved) = Len(allDevices) => resolved = allDevices
        /\ devicesInitialized =>
              /\ Len(devicesToShow) > 0
              /\ Range(devicesToShow) \subseteq Range(allDevices)

\* the fallback has acted: no device of a non-empty list is compatible with the
\* selected entry, and the modal shows the whole list
C1_FallbackTaken ==
    /\ devicesInitialized
    /\ selectedGame # NoGame
    /\ Len(allDevices) > 0
    /\ Len(filterDevicesByGamePlatforms(allDevices, selectedGame, protonCompatible)) = 0
    /\ devicesToShow = allDevices

\* the scenario of C10: an NES entry of 1988, and a device list made of one
\* Nintendo-only device and one console of another family
NesEntry(game) == game.platforms = Some(<<pNES>>) /\ game.released = ReleasedIn(1988)

NintendoAndUnrelatedConsole(devices) ==
    /\ Len(devices) = 2
    /\ \E i, j \in DOMAIN devices :
          /\ devices[i].platforms = <<"Nintendo">>
          /\ devices[j].type = "console"
          /\ Range(devices[j].platforms) \cap
                {"Nintendo", "Retro", "Emulation", "Linux", "SteamOS"} = {}

NintendoDevicesOf(devices) ==
    LET IsNintendo(d) == d.platforms = <<"Nintendo">>
    IN  SelectSeq(devices, IsNintendo)

\* C10: for an entry declared for "NES" and released in 1988, and a list of one
\* Nintendo-only console and one unrelated console, the filter returns exactly
\* the Nintendo console, and that is the list the modal shows for the entry.
C10_NesResolvesToNintendoConsole ==
    NintendoAndUnrelatedConsole(allDevices) =>
        /\ \A E \in CatalogGames, hint \in BOOLEAN :
              NesEntry(E) =>
                  filterDevicesByGamePlatforms(allDevices, E, hint)
                      = NintendoDevicesOf(allDevices)
        /\ (devicesInitialized /\ NesEntry(selectedGame) /\ ~showAllDevices) =>
              devicesToShow = NintendoDevicesOf(allDevices)

C10_NesEntrySelected ==
    /\ NintendoAndUnrelatedConsole(allDevices)
    /\ devicesInitialized
    /\ NesEntry(selectedGame)
    /\ ~showAllDevices
    /\ Len(devicesToShow) = 1
    /\ devicesToShow[1].platforms = <<"Nintendo">>

\* a retro entry that declares platforms none of which is a name of the legacy
\* Nintendo family or is mapped to the Nintendo tag
RetroOfAnotherFamily(game) ==
    /\ game # NoGame
    /\ IsPresent(game.platforms)
    /\ Len(game.platforms[1]) > 0
    /\ isRetroGame(game)
    /\ \A i \in DOMAIN game.platforms[1] :
          \A name \in {toLowerCase(game.platforms[1][i])} :
              /\ name \notin NintendoRetroNames
              /\ (name \in platformMapKeys => "Nintendo" \notin platformMapLookup[name])

\* whether the device carries no other tag than Nintendo
NintendoOnly(device) == Range(device.platforms) = {"Nintendo"}

\* C18: the successor tag is added for members of the legacy Nintendo family
\* only: when the selected entry is a retro entry of another family, a
\* Nintendo-only device is among the devices shown only if the whole list is
\* shown because no device carries a tag of the entry's platforms or of the
\* compatibility hint.
C18_SuccessorTagForNintendoFamilyOnly ==
    (devicesInitialized /\ ~showAllDevices /\ RetroOfAnotherFamily(selectedGame)) =>
        \A tags \in {compatiblePlatforms(selectedGame, protonCompatible) \ {"Nintendo"}} :
            IF \E i \in DOMAIN allDevices : DeviceIsCompatible(allDevices[i], tags)
            THEN \A i \in DOMAIN devicesToShow : ~NintendoOnly(devicesToShow[i])
            ELSE devicesToShow = allDevices

\* the compatible-tag set of an entry as a union: the map images of its
\* declared platforms, the successor tag of the retro rule, and the two Linux
\* tags when the hint is true
TagsOf(game, hint) ==
    UNION {platformMapLookup[name] :
              name \in {toLowerCase(game.platforms[1][i]) : i \in DOMAIN game.platforms[1]}
                          \cap platformMapKeys}
    \cup (IF isRetroGame(game) /\ hasNintendoRetro(game) THEN {"Nintendo"} ELSE {})
    \cup (IF hint THEN {"Linux", "SteamOS"} ELSE {})

\* the positions of the devices that carry one of the tags
Carrying(devices, tags) ==
    {i \in DOMAIN devices : Range(devices[i].platforms) \cap tags # {}}

DeclaresPlatforms(game) ==
    game # NoGame /\ IsPresent(game.platforms) /\ Len(game.platforms[1]) > 0

\* C19 as stated: for an entry that declares a platform, the filter returns
\* the devices that carry a tag of the compatible-tag set, and only these, in
\* their input order.
C19_ResultIsCompatibleDevices ==
    \A E \in CatalogGames, hint \in BOOLEAN :
        DeclaresPlatforms(E) =>
            filterDevicesByGamePlatforms(allDevices, E, hint)
                = SubSequence(allDevices, Carrying(allDevices, TagsOf(E, hint)))

\* the devices that carry a tag of the entry's compatible-tag set, in input
\* order, or the whole list when the entry is retro and no device carries one
CarryingOrRetroFallback(devices, game, hint) ==
    LET carrying == Carrying(devices, TagsOf(game, hint))
    IN  IF carrying = {} /\ isRetroGame(game)
        THEN devices
        ELSE SubSequence(devices, carrying)

\* C19: for an entry that declares a platform, the filter returns the devices
\* that carry a tag of the compatible-tag set, and only these, in their input
\* order, unless the entry is retro and no device carries such a tag: then it
\* returns the whole list.  With the hint true every device tagged Linux or
\* SteamOS is returned.  The devices shown for a selected entry are the
\* filter's result as long as "show all" is off.
C19_CompatibleDevicesOrRetroFallback ==
    /\ \A E \in CatalogGames, hint \in BOOLEAN :
          DeclaresPlatforms(E) =>
              \A result \in {filterDevicesByGamePlatforms(allDevices, E, hint)} :
                  /\ result = CarryingOrRetroFallback(allDevices, E, hint)
                  /\ hint => \A i \in Carrying(allDevices, {"Linux", "SteamOS"}) :
                                 allDevices[i] \in Range(result)
    /\ (devicesInitialized /\ ~showAllDevices /\ DeclaresPlatforms(selectedGame)) =>
          devicesToShow = CarryingOrRetroFallback(allDevices, selectedGame, protonCompatible)

\* the hint has decided: an entry for Windows is selected, the hint is true,
\* and of a Windows computer, a Linux handheld and two consoles the modal shows
\* the computer and the handheld, in the order of the list
C19_HintAddsLinuxDevice ==
    /\ devicesInitialized
    /\ ~showAllDevices
    /\ selectedGame.platforms = Some(<<pPC>>)
    /\ protonCompatible
    /\ Len(allDevices) = 4
    /\ Len(devicesToShow) = 2
    /\ Range(devicesToShow[1].platforms) = {"Windows"}
    /\ Range(devicesToShow[2].platforms) = {"Linux", "SteamOS"}

\* C20: while an entry is selected, the compatibility hint is true only if
\* the user has a Linux or SteamOS device, the entry has a Steam app id, and
\* the tier held for that app id is one of silver, gold, platinum and native.
C20_HintFromTierOfSelectedGame ==
    (selectedGame # NoGame /\ protonCompatible) =>
        /\ hasLinuxDevices
        /\ selectedGame.id \in SteamGameIds
        /\ selectedGame.id \in DOMAIN protonDbCache
        /\ isProtonCompatible(protonDbCache[selectedGame.id])

(***************************************************************************)
(* Properties of rankSearchResults.                                        *)
(***************************************************************************)
\* the position of the candidate with the given id in the ranking
PositionOf(id) == CHOOSE k \in DOMAIN ranked : ranked[k].id = id

\* what popularity, recency and rating add to the finalScore of a ranked
\* candidate, in the unit of ScoreUnit
OtherComponents(r) == r._searchScore - r.relevance * 6 * PopularityDivisor(gamesAtCall)

\* the lead an exact match has over the next rung: (1.0 - 0.9) * 0.6 of finalScore
ExactLead == 600 * QueryWordCount(query) * PopularityDivisor(gamesAtCall)

\* C2, as stated: a candidate whose name equals the query exactly (whatever the
\* case, and with 1-6 read as Roman numerals) comes before every candidate
\* whose name does not, whatever their popularity, release date and rating.
C2_ExactMatchAlwaysFirst ==
    rankDone =>
        \A exact \in {{k \in DOMAIN ranked : ExactMatch(ranked[k].name, query)}} :
            \A i \in exact, j \in DOMAIN ranked \ exact : i < j

\* C2, amended: an exact match has relevance 1.0 and every other candidate at
\* most 0.9, and the exact match comes first whenever what popularity, recency
\* and rating add to the other candidate's finalScore exceeds what they add to
\* its own by less than 0.06.
C2_ExactMatchFirstWithinLead ==
    rankDone =>
        \A exact \in {{k \in DOMAIN ranked : ExactMatch(ranked[k].name, query)}} :
        \A n \in {QueryWordCount(query)} :
            \A i \in exact, j \in DOMAIN ranked \ exact :
                /\ ranked[i].relevance = 1000 * n
                /\ ranked[j].relevance <= 900 * n
                /\ OtherComponents(ranked[j]) - OtherComponents(ranked[i]) < ExactLead
                      => i < j

\* an exact match that came later in the input and has the weaker popularity,
\* recency and rating is ranked in front of a candidate that is no exact match
C2_ExactMatchOvertakes ==
    /\ rankDone
    /\ \E i, j \in DOMAIN ranked :
          /\ i < j
          /\ ranked[i].id > ranked[j].id
          /\ ExactMatch(ranked[i].name, query)
          /\ ~ExactMatch(ranked[j].name, query)
          /\ ranked[j].relevance > 0
          /\ OtherComponents(ranked[j]) > OtherComponents(ranked[i])

\* C3: for a non-empty candidate list, the ranking has the length of the list
\* and holds every candidate of the list (by id, with its fields) exactly once.
C3_RankingIsPermutation ==
    (rankDone /\ Len(gamesAtCall) > 0) =>
        /\ Len(ranked) = Len(gamesAtCall)
        /\ \A i \in DOMAIN gamesAtCall :
              /\ Cardinality({k \in DOMAIN ranked : ranked[k].id = gamesAtCall[i].id}) = 1
              /\ LET r == ranked[PositionOf(gamesAtCall[i].id)]
                 IN  [id |-> r.id, name |-> r.name, added |-> r.added,
                      released |-> r.released, rating |-> r.rating] = gamesAtCall[i]

\* a ranking of MaxGames candidates that is not in the order of the input
C3_RankingReorders ==
    /\ rankDone
    /\ Len(gamesAtCall) = MaxGames
    /\ Len(ranked) = MaxGames
    /\ ranked[1].id # gamesAtCall[1].id

\* C4: the ranking is in descending order of finalScore, candidates of equal
\* finalScore are in the order of the input, and the array passed in is as it
\* was before the call.
C4_SortedStableInputKept ==
    rankDone =>
        /\ \A i, j \in DOMAIN ranked :
              i < j => /\ ranked[i]._searchScore >= ranked[j]._searchScore
                       /\ ranked[i]._searchScore = ranked[j]._searchScore
                             => ranked[i].id < ranked[j].id
        /\ games = gamesAtCall

\* a ranking with two candidates of equal, positive finalScore
C4_TieKeepsInputOrder ==
    /\ rankDone
    /\ games = gamesAtCall
    /\ \E i, j \in DOMAIN ranked :
          /\ i < j
          /\ ranked[i]._searchScore = ranked[j]._searchScore
          /\ ranked[i]._searchScore > 0
          /\ ranked[i].id < ranked[j].id

\* C5: a candidate whose name holds an add-on keyword as a whole word, ranked
\* for a query that holds none, has a relevance of at most 0.3 times the
\* relevance of the ladder; in every other case its relevance is the relevance
\* of the ladder.
C5_AddOnPenalty ==
    rankDone =>
        \A k \in DOMAIN ranked :
            LET unpenalised == LadderRelevance(ranked[k].name, query)
            IN  IF isDLCPattern(ranked[k].name) /\ ~isDLCPattern(query)
                THEN 10 * ranked[k].relevance <= 3 * unpenalised
                ELSE ranked[k].relevance = unpenalised

\* an add-on that matches the query is ranked with the penalty
C5_AddOnPenalised ==
    /\ rankDone
    /\ \E k \in DOMAIN ranked :
          /\ isDLCPattern(ranked[k].name)
          /\ ~isDLCPattern(query)
          /\ ranked[k].relevance > 0
          /\ 10 * ranked[k].relevance = 3 * LadderRelevance(ranked[k].name, query)

\* the lead of "The Legend of Zelda II: The Adventure of Link" (a match after
\* a blank, 0.8) over "Zelda II Collector's Pack" (a prefix match with the
\* penalty, 0.27) for the query "zelda 2": (0.8 - 0.27) * 0.6 of finalScore
Zelda2Lead == 530 * 6 * QueryWordCount(query) * PopularityDivisor(gamesAtCall)

\* C15: for popularity counts of at least 0 and ratings from 0 to 5, every
\* ranked candidate has a relevance, a popularity, a recency and a rating
\* component between 0 and 1 and a finalScore, their sum with the weights 0.6,
\* 0.25, 0.10 and 0.05, between 0 and 1; when the largest popularity count of
\* the batch is positive the candidates that have it have popularity 1, and
\* when it is 0 every candidate has popularity 0.
C15_ScoresWithinUnitInterval ==
    rankDone =>
        \A n \in {QueryWordCount(query)} :
        \A m \in {IF gamesAtCall = <<>> THEN 1 ELSE PopularityDivisor(gamesAtCall)} :
            /\ \A k \in DOMAIN ranked :
                  \A pop \in {popularityScore(ranked[k], gamesAtCall)} :
                  \A rec \in {recencyScore(ranked[k].released, currentYear)} :
                  \A stars \in {OrZero(ranked[k].rating)} :
                      /\ 0 <= ranked[k].relevance /\ ranked[k].relevance <= 1000 * n
                      /\ 0 <= pop /\ pop <= m
                      /\ 0 <= rec /\ rec <= 1000
                      /\ 0 <= stars /\ stars <= 5
                      /\ ranked[k]._searchScore
                            = 6 * m * ranked[k].relevance + 2500 * n * pop
                              + n * m * rec + 100 * n * m * stars
                      /\ 0 <= ranked[k]._searchScore
                      /\ ranked[k]._searchScore <= 10000 * n * m
                      /\ (maxAdded(gamesAtCall) > 0
                            /\ OrZero(ranked[k].added) = maxAdded(gamesAtCall)) => pop = m
                      /\ maxAdded(gamesAtCall) = 0 => pop = 0
            /\ (gamesAtCall # <<>> /\ maxAdded(gamesAtCall) > 0) =>
                  \E k \in DOMAIN ranked : popularityScore(ranked[k], gamesAtCall) = m

\* a batch whose largest popularity count is positive and shared by no other
\* candidate: one candidate has popularity 1, another one less than 1 and more
\* than 0
C15_BatchRelativePopularity ==
    /\ rankDone
    /\ Len(gamesAtCall) > 1
    /\ maxAdded(gamesAtCall) > 1
    /\ \E i, j \in DOMAIN ranked :
          /\ popularityScore(ranked[i], gamesAtCall) = PopularityDivisor(gamesAtCall)
          /\ popularityScore(ranked[j], gamesAtCall) > 0
          /\ popularityScore(ranked[j], gamesAtCall) < PopularityDivisor(gamesAtCall)
          /\ ranked[i]._searchScore > 0

\* the first rung of the ladder that applies to a name and a query given in
\* one form (both lower-cased, or both normalized); 5 when none of the first
\* four does
RungOn(name, q) ==
    IF name = q THEN 1
    ELSE IF startsWith(name, q) THEN 2
    ELSE IF includes(name, <<" ">> \o q) THEN 3
    ELSE IF includes(name, q) THEN 4
    ELSE 5

\* the value of rung r, in relevance units, for a query of n words of which
\* matched occur in some word of the name
RungValue(r, n, matched) ==
    CASE r = 1 -> 1000 * n
      [] r = 2 -> 900 * n
      [] r = 3 -> 800 * n
      [] r = 4 -> 600 * n
      [] OTHER -> 400 * matched

\* the relevance of a ranked candidate for the ladder value expected:
\* multiplied by 0.3 when the add-on penalty applies
IsPenalised(r, expected) ==
    IF isDLCPattern(r.name) /\ ~isDLCPattern(query)
    THEN 10 * r.relevance = 3 * expected
    ELSE r.relevance = expected

\* C16, as stated: before the penalty the relevance is the value of the first
\* rung that applies to the normalized query and the normalized name: exact
\* match 1.0, prefix 0.9, after a space 0.8, anywhere 0.6, otherwise 0.4 times
\* the fraction of the query words found in some word of the name.
C16_LadderOnNormalizedForms ==
    rankDone =>
        \A nq \in {normalizeForComparison(toLowerCase(query))} :
        \A k \in DOMAIN ranked :
            \A nn \in {normalizeForComparison(toLowerCase(ranked[k].name))} :
                IsPenalised(ranked[k],
                            RungValue(RungOn(nn, nq), Len(splitSpaces(nq)), wordMatches(nq, nn)))

\* C16, amended: each rung is tested on the lower-cased query and name and on
\* their normalized forms, and applies when either pair passes; the relevance
\* before the penalty is the value of the first rung that applies, and the
\* last rung counts the words of the normalized query found in some word of
\* the normalized name.
C16_LadderOnEitherForm ==
    rankDone =>
        \A lq \in {toLowerCase(query)} :
        \A nq \in {normalizeForComparison(lq)} :
        \A k \in DOMAIN ranked :
            \A ln \in {toLowerCase(ranked[k].name)} :
            \A nn \in {normalizeForComparison(ln)} :
            \A lower \in {RungOn(ln, lq)} :
            \A normal \in {RungOn(nn, nq)} :
                IsPenalised(ranked[k],
                            RungValue(IF lower < normal THEN lower ELSE normal,
                                      Len(splitSpaces(nq)), wordMatches(nq, nn)))

\* a candidate that is a prefix match in its lower-cased form only: for
\* "halo 3", "Halo 3D" starts with the query, while its normalized form
\* "halo 3d" holds "halo" but not "iii"
C16_PrefixInLowerCaseOnly ==
    /\ rankDone
    /\ \E k \in DOMAIN ranked :
          /\ RungOn(toLowerCase(ranked[k].name), toLowerCase(query)) = 2
          /\ RungOn(normalizeForComparison(toLowerCase(ranked[k].name)),
                    normalizeForComparison(toLowerCase(query))) = 5
          /\ ranked[k].relevance = 900 * QueryWordCount(query)

\* C11, as stated: for the query "zelda 2", "The Legend of Zelda II: The
\* Adventure of Link" comes before "Zelda II Collector's Pack" in the ranking,
\* whatever the popularity, release date and rating of the two.
C11_AdventureAlwaysBeforePack ==
    (rankDone /\ query = qZelda2) =>
        \A i, j \in DOMAIN ranked :
            (ranked[i].name = nZeldaAdventure /\ ranked[j].name = nZeldaPack) => i < j

\* C11, amended: for the query "zelda 2" the relevance of "The Legend of Zelda
\* II: The Adventure of Link" is 0.8 and that of "Zelda II Collector's Pack" is
\* 0.27 (0.9 with the add-on penalty), and the first comes before the second
\* whenever what popularity, recency and rating add to the finalScore of the
\* second exceeds what they add to the first by less than 0.318.
C11_AdventureBeforePackWithinLead ==
    (rankDone /\ query = qZelda2) =>
        \A n \in {QueryWordCount(query)} :
            \A i, j \in DOMAIN ranked :
                (ranked[i].name = nZeldaAdventure /\ ranked[j].name = nZeldaPack) =>
                    /\ ranked[i].relevance = 800 * n
                    /\ ranked[j].relevance = 270 * n
                    /\ OtherComponents(ranked[j]) - OtherComponents(ranked[i]) < Zelda2Lead
                          => i < j

\* the add-on came first in the input and has the better popularity, recency
\* and rating, and the base game is ranked in front of it
C11_PenaltyDecides ==
    /\ rankDone
    /\ query = qZelda2
    /\ \E i, j \in DOMAIN ranked :
          /\ i < j
          /\ ranked[i].name = nZeldaAdventure
          /\ ranked[j].name = nZeldaPack
          /\ ranked[j].id < ranked[i].id
          /\ OtherComponents(ranked[j]) > OtherComponents(ranked[i])

\* C13, as stated: a call of rankSearchResults with the query and the
\* candidate list of an earlier call returns the ordering and the scores the
\* earlier call returned, whatever the date is at either call.
C13_SameInputsSameRanking ==
    [][(rankDone /\ query' = query /\ gamesAtCall' = gamesAtCall) => ranked' = ranked]_vars

\* a candidate without popularity count, release date and rating
LacksOptionalFields(r) ==
    ~IsPresent(r.added) /\ ~r.released.present /\ ~IsPresent(r.rating)

\* C14: every candidate of the list is ranked, and one without popularity
\* count, release date and rating has a finalScore of 0.6 times its relevance
\* (its three other components are 0); for an entry whose platform list is
\* missing or empty the filter returns the device list as it is, and that is
\* the list the modal shows.
C14_AbsentFieldsDegrade ==
    /\ rankDone =>
          /\ Len(ranked) = Len(gamesAtCall)
          /\ \A k \in DOMAIN ranked :
                LacksOptionalFields(ranked[k]) =>
                    /\ OtherComponents(ranked[k]) = 0
                    /\ ranked[k]._searchScore
                          = 6 * ranked[k].relevance * PopularityDivisor(gamesAtCall)
    /\ \A E \in CatalogGames, hint \in BOOLEAN :
          DeclaresNoPlatform(E) => filterDevicesByGamePlatforms(allDevices, E, hint) = allDevices
    /\ (devicesInitialized /\ selectedGame # NoGame /\ DeclaresNoPlatform(selectedGame)) =>
          devicesToShow = allDevices

\* a matching candidate without optional fields has been ranked next to one
\* that has them, and an entry with an empty platform list is selected on a
\* vault with several devices
C14_SparseCandidateAndEntry ==
    /\ rankDone
    /\ Len(gamesAtCall) > 1
    /\ maxAdded(gamesAtCall) > 0
    /\ \E k \in DOMAIN ranked :
          /\ LacksOptionalFields(ranked[k])
          /\ ranked[k].relevance > 0
          /\ ranked[k]._searchScore = 6 * ranked[k].relevance * PopularityDivisor(gamesAtCall)
    /\ devicesInitialized
    /\ selectedGame # NoGame
    /\ selectedGame.platforms = Some(<<>>)
    /\ Len(allDevices) > 1
    /\ devicesToShow = allDevices

(***************************************************************************)
(* Properties of the image classification.                                 *)
(***************************************************************************)
\* processImageFiles has gone past its loop over the files
Classified == imgPc \in {"modal", "confirming", "done"}

\* whether the ranked list of records holds the analysis of file number i
Holds(records, i) == \E k \in DOMAIN records : records[k].file = i

\* C6, as stated: every file of the batch that the browser has finished with
\* has an analysis record, and once no analysis is pending processImageFiles
\* has as many analyses as files.
C6_OneRecordPerImage ==
    /\ \A i \in DOMAIN files : decodeState[i] # "pending" => Holds(analyses, i)
    /\ imgPc \notin {"idle", "analyzing"} => Len(analyses) = Len(files)

\* C7: when the batch is classified, every image that shares its slot with
\* another high-confidence image of the batch is in the conflicts returned by
\* detectConflicts and is not in cleanAutoAssigned.
C7_SharedSlotIsConflict ==
    Classified =>
        \A a, b \in DOMAIN analyses :
            ( /\ a # b
              /\ IsHigh(analyses[a]) /\ IsHigh(analyses[b])
              /\ analyses[a].type # NullType
              /\ analyses[a].type = analyses[b].type )
            => /\ Holds(conflicts, a)
               /\ ~Holds(cleanAutoAssigned, a)
               /\ IsPresent(assignmentModal)
               /\ \E k \in DOMAIN assignmentModal[1].problematicImages :
                     assignmentModal[1].problematicImages[k].file = a

\* a 600x900 and a 605x910 opaque image of one batch are both conflicts of
\* the box-art slot
C7_TwoBoxArts ==
    /\ Classified
    /\ \E a, b \in DOMAIN analyses :
          /\ a # b
          /\ analyses[a].width = 600 /\ analyses[a].height = 900
          /\ analyses[b].width = 605 /\ analyses[b].height = 910
          /\ ~analyses[a].hasTransparency /\ ~analyses[b].hasTransparency
          /\ analyses[a].type = "box_art" /\ analyses[b].type = "box_art"
          /\ Holds(conflicts, a) /\ Holds(conflicts, b)
          /\ cleanAutoAssigned = <<>>

\* the analysis of file number a shares its slot with another high-confidence
\* analysis of the batch
SharesSlot(a) ==
    /\ IsHigh(analyses[a])
    /\ \E b \in DOMAIN analyses :
          b # a /\ IsHigh(analyses[b]) /\ analyses[b].type = analyses[a].type

C28_BucketsPartitionBatch ==
    Classified =>
        \A i \in DOMAIN analyses :
            Cardinality({b \in {"conflicts", "low", "clean"} :
                \/ b = "conflicts" /\ Holds(conflicts, i)
                \/ b = "low" /\ Holds(lowConfidence, i)
                \/ b = "clean" /\ Holds(cleanAutoAssigned, i)}) = 1

\* the slot of an analysis was found by the transparency rule or by a
\* dimension match within tolerance
FoundByFirstTwoSteps(a) ==
    \/ IsLogo(a.width, a.height, a.hasTransparency)
    \/ DimensionMatch(a.width, a.height) # NullType

\* C8, as stated: the confidence of an analysis is "high" exactly when its
\* slot was found by the transparency rule or a dimension match, and "low"
\* otherwise; an image that matches no slot's dimensions is never stored
\* without the user being asked.
C8_ConfidenceFollowsRule ==
    /\ \A k \in DOMAIN analyses :
          /\ analyses[k].confidence \in {"high", "low"}
          /\ analyses[k].confidence = "high" <=> FoundByFirstTwoSteps(analyses[k])
    /\ \A k \in DOMAIN uploadedImages :
          FoundByFirstTwoSteps(analyses[uploadedImages[k].file])

\* C9: every analysed image that has transparency and is less than 800 wide
\* and less than 600 high is assigned to the logo slot, whatever its size.
C9_SmallTransparentIsLogo ==
    \A k \in DOMAIN analyses :
        ( /\ analyses[k].hasTransparency
          /\ analyses[k].width < LogoMaxWidth
          /\ analyses[k].height < LogoMaxHeight )
        => /\ analyses[k].type = "logo"
           /\ analyses[k].confidence = "high"

\* a transparent image of exactly the header size is a logo
C9_TransparentHeaderSize ==
    \E k \in DOMAIN analyses :
        /\ analyses[k].hasTransparency
        /\ analyses[k].width = 460 /\ analyses[k].height = 215
        /\ WithinTolerance(STEAM_IMAGE_SPECS[2], analyses[k].width, analyses[k].height)
        /\ analyses[k].type = "logo"
\* C17: an analysed image that the transparency rule does not take gets the
\* first of box_art (600x900, +-50), header (460x215, +-20) and hero (1920x620,
\* +-100) that has both its width and its height within tolerance; when none
\* has, a ratio width / height below 0.8 gives box_art, above 2.5 hero, above
\* 1.5 header, and any other ratio no slot.  The slot is this function of
\* width, height and transparency, whatever the name of the file.
C17_DimensionsThenAspectRatio ==
    \A k \in DOMAIN analyses :
        \A w \in {analyses[k].width}, h \in {analyses[k].height} :
            ~(analyses[k].hasTransparency /\ w < 800 /\ h < 600) =>
                analyses[k].type =
                    IF Abs(w - 600) <= 50 /\ Abs(h - 900) <= 50 THEN "box_art"
                    ELSE IF Abs(w - 460) <= 20 /\ Abs(h - 215) <= 20 THEN "header"
                    ELSE IF Abs(w - 1920) <= 100 /\ Abs(h - 620) <= 100 THEN "hero"
                    ELSE IF 10 * w < 8 * h THEN "box_art"
                    ELSE IF 10 * w > 25 * h THEN "hero"
                    ELSE IF 10 * w > 15 * h THEN "header"
                    ELSE NullType

\* an opaque image just outside the tolerance of the hero slot, with the name
\* of another slot's file, is a hero image by its aspect ratio
C17_HeroByAspectRatio ==
    \E k \in DOMAIN analyses :
        /\ ~analyses[k].hasTransparency
        /\ analyses[k].name = "hero.jpg"
        /\ analyses[k].width = 2021 /\ analyses[k].height = 620
        /\ DimensionMatch(analyses[k].width, analyses[k].height) = NullType
        /\ analyses[k].type = "hero"

(***************************************************************************)
(* Properties of KeyboardNavigationHelper.                                 *)
(***************************************************************************)
\* the index after k moves in one direction
RECURSIVE IndexAfterMoves(_, _, _, _)
IndexAfterMoves(items, index, direction, k) ==
    IF k = 0 THEN index
    ELSE IndexAfterMoves(moveSelection(items, index, direction).items,
                         moveSelection(items, index, direction).selectedIndex,
                         direction, k - 1)

\* C21: with n >= 1 items, ArrowDown leads from index i to (i + 1) mod n and
\* from no selection to index 0, ArrowUp leads from index i to (i - 1) mod n
\* and from no selection to index n - 1, and n moves in one direction from a
\* selected index lead back to it.
C21_MovesWrapCircularly ==
    [][Len(navItems) >= 1 =>
          \A n \in {Len(navItems)} :
              /\ KeyDown("ArrowDown") =>
                    selectedIndex' = IF selectedIndex = -1 THEN 0
                                     ELSE (selectedIndex + 1) % n
              /\ KeyDown("ArrowUp") =>
                    selectedIndex' = IF selectedIndex = -1 THEN n - 1
                                     ELSE (selectedIndex + n - 1) % n
              /\ HasItem(navItems, selectedIndex) =>
                    \A direction \in {1, -1} :
                        IndexAfterMoves(navItems, selectedIndex, direction, n)
                            = selectedIndex]_vars

\* the last of several items is selected and highlighted, which ArrowUp does
\* from the first item and from no selection
C21_LastItemSelected ==
    /\ Len(navItems) >= 2
    /\ selectedIndex = Len(navItems) - 1
    /\ navItems[Len(navItems)]
    /\ moveSelection(navItems, selectedIndex, 1).selectedIndex = 0

\* C22: the cursor starts with no selection; Enter changes neither the items
\* nor the index and calls the onSelect of the item at selectedIndex and no
\* other, and no callback at all when nothing is selected or no item is
\* registered; Escape and destroy lead to no selection, and destroy empties
\* the item list.
C22_SelectClearDestroy ==
    /\ selectedIndex = -1
    /\ [][/\ KeyDown("Enter") =>
              /\ navItems' = navItems /\ selectedIndex' = selectedIndex
              /\ invoked' = IF selectedIndex >= 0 /\ selectedIndex < Len(navItems)
                             THEN {selectedIndex} ELSE {}
              /\ (selectedIndex = -1 \/ navItems = <<>>) => invoked' = {}
          /\ KeyDown("Escape") => selectedIndex' = -1 /\ invoked' = {}
          /\ Destroy => selectedIndex' = -1 /\ navItems' = <<>> /\ invoked' = {}]_vars

\* Enter has called the callback of the second item, which is selected
C22_SecondItemInvoked ==
    /\ Len(navItems) >= 2
    /\ selectedIndex = 1
    /\ invoked = {1}

\* the positions of the items that carry the class keyboard-selected
Highlighted == {i \in 0..(Len(navItems) - 1) : navItems[i + 1]}

\* C29: at most one item is highlighted; when selectedIndex is the index of
\* an item, that item and no other is highlighted; when nothing is selected,
\* no item is highlighted.
C29_HighlightFollowsIndex ==
    /\ Cardinality(Highlighted) <= 1
    /\ HasItem(navItems, selectedIndex) => Highlighted = {selectedIndex}
    /\ selectedIndex = -1 => Highlighted = {}

\* C12, as stated: selectedIndex is -1 or the index of a registered item,
\* after every sequence of calls and keys, also when a move key arrives while
\* no item is registered.
C12_IndexInRange ==
    selectedIndex = -1 \/ (selectedIndex >= 0 /\ selectedIndex < Len(navItems))


(***************************************************************************)
(* Properties of the Create button and of createGame.                      *)
(***************************************************************************)
\* whether the subscription is offered by a platform that is selected on a
\* selected device
OfSelectedDevice(subscription) ==
    \E i \in DOMAIN streamlinedDevices :
        /\ streamlinedDevices[i].isSelected
        /\ \E k \in DOMAIN streamlinedDevices[i].selectedPlatforms :
               subscription \in Range(streamlinedDevices[i].platformSubscriptions[
                                          streamlinedDevices[i].selectedPlatforms[k]])

\* C27: while the modal is open, the Create button is enabled if and only if
\* createGame would pass its two checks and create the game.
C27_ButtonAgreesWithCreateGame ==
    modalOpen =>
        (~createDisabled <=>
            createGameValidation(gameDataName, gameData.deviceStores,
                                 subscriptionServices, streamlinedDevices))

\* C30: when createGame has created the game, gameData.platforms is not empty
\* and every subscription of the record belongs to a selected device.
C30_CreatedForSelectedDevice ==
    createOutcome = "created" =>
        /\ gameData.platforms # <<>>
        /\ \A k \in DOMAIN subscriptionServices :
               OfSelectedDevice(subscriptionServices[k])


(***************************************************************************)
(* Properties of the search.                                               *)
(***************************************************************************)
FivePatterns == { <<"s", "e", "a", "s", "o", "n">>, <<"e", "p", "i", "s", "o", "d", "e">>, <<"p", "a", "r", "t">>, <<"v", "o", "l", "u", "m", "e">>, <<"c", "h", "a", "p", "t", "e", "r">> }
ThreePatterns == { <<"s", "e", "a", "s", "o", "n">>, <<"e", "p", "i", "s", "o", "d", "e">>, <<"v", "o", "l", "u", "m", "e">> }

\* whether the name has one of the words followed by a number
Numbered(name, words) == \E word \in words : WordThenDigits(name, word)

\* the games of the answer to q that stay when a classic expansion is an
\* expansion of before 2010 whose name has none of the words followed by a
\* number, ranked and cut to the first eight
ShownFor(q, words) ==
    LET Stays(game) ==
            LET name == toLowerCase(game.name)
                addOn == hasModernDLC(name) \/ Numbered(name, FivePatterns)
                classic == /\ includes(name, <<"e", "x", "p", "a", "n", "s", "i", "o", "n">>)
                           /\ game.released.present /\ game.released.valid
                           /\ game.released.year < ClassicBefore
                           /\ ~Numbered(name, words)
            IN  ~addOn \/ classic
    IN  sliceTo(rankSearchResults(SelectSeq(RawgAnswer(q), Stays), q, currentYear),
                ResultLimit)

\* C23 as stated: an answer of RAWG leaves in searchResults the first eight of
\* the ranking of the games that are no add-on content or are an expansion of
\* before 2010 without a season, episode or volume number.
C23_ClassicWithoutSeasonEpisodeVolume ==
    [][ \A k \in 1..MaxInFlight :
            RawgResponds(k, TRUE) => searchResults' = ShownFor(inFlight[k], ThreePatterns)
      ]_vars

\* C23: an answer of RAWG leaves in searchResults the first eight of the
\* ranking of the games that are no add-on content (no modern DLC keyword, no
\* season, episode, part, volume or chapter number) or are an expansion of
\* before 2010 without a season, episode, part, volume or chapter number.
C23_AddOnsDroppedClassicExpansionsKept ==
    [][ \A k \in 1..MaxInFlight :
            RawgResponds(k, TRUE) => searchResults' = ShownFor(inFlight[k], FivePatterns)
      ]_vars

\* "Zelda Expansion DLC" of 2005 is among the results shown
C23_ClassicExpansionShown ==
    \E i \in DOMAIN searchResults :
        searchResults[i].name = <<"Z", "e", "l", "d", "a", " ", "E", "x", "p", "a", "n", "s", "i", "o", "n", " ", "D", "L", "C">>

\* C26: once no timer is pending and no search is in flight, searchResults
\* holds the results of the value in the search field (or nothing, when the
\* request failed).
C26_ResultsOfLatestQuery ==
    (searchTimeout = Absent /\ inFlight = <<>> /\ Len(gameDataName) >= 2) =>
        searchResults \in {searchRawg(RawgAnswer(gameDataName), gameDataName, currentYear),
                           <<>>}


(***************************************************************************)
(* Properties of selectGame.                                               *)
(***************************************************************************)
\* C25: when no selectGame call waits for an answer and a game is selected,
\* gameData.rawgId is the id of that game and gameData.steamAppId is absent
\* or the Steam app id of that game.
C25_RecordBelongsToSelectedGame ==
    (selectCalls = <<>> /\ selectedGame # NoGame) =>
        /\ gameData.rawgId = Some(selectedGame.id)
        /\ \/ gameData.steamAppId = Absent
           \/ /\ selectedGame.id \in SteamGameIds
              /\ gameData.steamAppId = Some(selectedGame.id)

====
